---- MODULE Spec2Model ----
(***************************************************************************)
(* DELILA file readers (macros/convert_to_tree.C, macros/read_delila.C):   *)
(* the MessagePack cursor primitives, the event/waveform schema decoder    *)
(* and the file framing loop of both macros.                               *)
(*                                                                         *)
(* Numbers.  TLC integers are 32 bits wide, the code's uint64_t, int64_t,  *)
(* size_t and double are 64 bits wide.  A 64-bit value is therefore kept   *)
(* as its bit pattern: a tuple of 8 bytes, most significant first.  Casts  *)
(* to narrower types take the low bytes, as the C++ conversions do.        *)
(* Buffers are 0-indexed in the code and 1-indexed here: data_[i] is       *)
(* data[i + 1].                                                            *)
(***************************************************************************)
EXTENDS Integers, Sequences, FiniteSets, TLC

VARIABLES
    reader,        \* which macro runs: "convert_to_tree" or "read_delila"
    file,          \* the bytes of the input file
    max_events,    \* the macro's max_events argument
    pc,            \* the position of the macro in its code
    fpos,          \* ifstream f: the position indicator
    ffail,         \* ifstream f: failbit (set together with eofbit by a short read)
    header_end_pos,
    data_end,
    block_len,
    block_data,    \* std::vector<uint8_t> block_data
    pos_,          \* MsgPackParser::pos_
    num_events,    \* convert_to_tree: size_t num_events of the current block
    ev_i,          \* index of the event loop of the current block
    events,        \* read_delila: std::vector<Event> events of the current block
    b,             \* convert_to_tree: the branch variables b_module ... b_trigger_threshold
    sink,          \* the entries filled into the TTree / pushed to all_events
    block_count,
    event_count,
    waveform_count,
    out_created,   \* convert_to_tree: the output TFile was created
    cerr,          \* the diagnostics written to std::cerr, in order
    footer,        \* read_footer: the fields it printed, or "none"
    io,            \* history: the reads made on the stream, <<offset, requested, what>>
    stop,          \* history: the break that ended the streaming loop, "" while none has
    decoded,       \* history: every record a parser decoded successfully, in order
    last           \* history: the last decoder call and its outcome

vars == <<reader, file, max_events, pc, fpos, ffail, header_end_pos, data_end,
          block_len, block_data, pos_, num_events, ev_i, events, b, sink,
          block_count, event_count, waveform_count, out_created, cerr, footer,
          io, stop, decoded, last>>

(***************************************************************************)
(* Program constants.                                                      *)
(***************************************************************************)
FOOTER_SIZE == 64
MAX_WAVEFORM_SAMPLES == 16384
MAX_BLOCK_LEN == 100000000
\* "DELILA02" and "DLEND002" as bytes
FILE_MAGIC == <<68, 69, 76, 73, 76, 65, 48, 50>>
FOOTER_MAGIC == <<68, 76, 69, 78, 68, 48, 48, 50>>

(***************************************************************************)
(* 64-bit values as 8 bytes, most significant first.                       *)
(***************************************************************************)
Min(x, y) == IF x <= y THEN x ELSE y
Max(x, y) == IF x >= y THEN x ELSE y

\* data_[i]; an index at or past the end is a read out of bounds, which the
\* callers record in their "hi" field (the value it would yield is unspecified)
At(data, i) == IF i < Len(data) THEN data[i + 1] ELSE 0

\* data_[p], data_[p + 1], ..., data_[p + n - 1]
Bytes(data, p, n) == [k \in 1..n |-> At(data, p + k - 1)]

\* a big-endian byte string of at most 8 bytes, zero-extended to 64 bits
\* (static_cast<uint64_t> / size_t of an unsigned value)
ZeroExt(bs) == [k \in 1..8 |-> IF k <= 8 - Len(bs) THEN 0 ELSE bs[k - (8 - Len(bs))]]

\* a decoder without sign: every value is zero-extended
SignExt_unsigned(bs) == [k \in 1..8 |-> IF k <= 8 - Len(bs) THEN 0 ELSE bs[k - (8 - Len(bs))]]

\* a big-endian byte string sign-extended to 64 bits
\* (int64_t val = static_cast<int8_t / int16_t / int32_t>(...))
SignExt(bs) ==
    [k \in 1..8 |-> IF k <= 8 - Len(bs)
                    THEN (IF bs[1] >= 128 THEN 255 ELSE 0)
                    ELSE bs[k - (8 - Len(bs))]]

\* the 64-bit pattern of a small natural number
U64(n) == <<0, 0, 0, 0, (n \div 16777216) % 256, (n \div 65536) % 256, (n \div 256) % 256, n % 256>>

\* the value is below 2^31, so that it is a TLC integer
Fits31(v) == v[1] = 0 /\ v[2] = 0 /\ v[3] = 0 /\ v[4] = 0 /\ v[5] < 128
Num(v) == ((v[5] * 256 + v[6]) * 256 + v[7]) * 256 + v[8]

\* i < v for a small natural i and a 64-bit unsigned v
LtU64(i, v) == IF Fits31(v) THEN i < Num(v) ELSE TRUE
\* v > n for a 64-bit unsigned v and a small natural n
GtU64(v, n) == IF Fits31(v) THEN Num(v) > n ELSE TRUE

CastU8_as_int8(v) == IF v[8] >= 128 THEN v[8] - 256 ELSE v[8]   \* a cast to int8_t
CastU8(v) == v[8]                                  \* static_cast<uint8_t>
CastU16(v) == v[7] * 256 + v[8]                    \* static_cast<uint16_t>
CastU32(v) == <<v[5], v[6], v[7], v[8]>>           \* static_cast<uint32_t>, as 4 bytes
CastI16_unsigned(v) == v[7] * 256 + v[8]           \* a cast that keeps 0 .. 65535
CastI16(v) ==                                      \* static_cast<int16_t>
    IF v[7] >= 128 THEN v[7] * 256 + v[8] - 65536 ELSE v[7] * 256 + v[8]
CastInt(v) ==                                      \* static_cast<int>
    IF v[5] >= 128
    THEN (v[5] - 256) * 16777216 + v[6] * 65536 + v[7] * 256 + v[8]
    ELSE Num(<<0, 0, 0, 0, v[5], v[6], v[7], v[8]>>)

(***************************************************************************)
(* MsgPackParser: the read primitives.  Each takes the buffer and the      *)
(* cursor and yields ok (the bool returned), pos (pos_ after the call),    *)
(* val (the out parameter) and hi (one past the highest index of data_     *)
(* the call read, 0 when it read nothing).                                 *)
(***************************************************************************)
Res(ok, pos, val, hi) == [ok |-> ok, pos |-> pos, val |-> val, hi |-> hi]

\* a read that checks nothing: the n bytes are taken to be there
Avail_unchecked(data, p, n) == TRUE

\* pos_ + n <= data_.size(): the n bytes from p on are in the buffer
Avail(data, p, n) == p + n <= Len(data)

read_array_header(data, pos) ==
    IF pos >= Len(data) THEN Res(FALSE, pos, U64(0), 0)
    ELSE LET byte == At(data, pos)
             p == pos + 1
         IN  IF byte \div 16 = 9                       \* (b & 0xf0) == 0x90
             THEN Res(TRUE, p, U64(byte % 16), p)
             ELSE IF byte = 220 /\ Avail(data, p, 2)     \* 0xdc
             THEN Res(TRUE, p + 2, ZeroExt(Bytes(data, p, 2)), p + 2)
             ELSE IF byte = 221 /\ Avail(data, p, 4)     \* 0xdd
             THEN Res(TRUE, p + 4, ZeroExt(Bytes(data, p, 4)), p + 4)
             ELSE Res(FALSE, p, U64(0), p)

read_uint(data, pos) ==
    IF pos >= Len(data) THEN Res(FALSE, pos, U64(0), 0)
    ELSE LET byte == At(data, pos)
             p == pos + 1
         IN  IF byte <= 127                             \* 0x7f
             THEN Res(TRUE, p, U64(byte), p)
             ELSE IF byte = 204 /\ Avail(data, p, 1)     \* 0xcc
             THEN Res(TRUE, p + 1, ZeroExt(Bytes(data, p, 1)), p + 1)
             ELSE IF byte = 205 /\ Avail(data, p, 2)     \* 0xcd
             THEN Res(TRUE, p + 2, ZeroExt(Bytes(data, p, 2)), p + 2)
             ELSE IF byte = 206 /\ Avail(data, p, 4)     \* 0xce
             THEN Res(TRUE, p + 4, ZeroExt(Bytes(data, p, 4)), p + 4)
             ELSE IF byte = 207 /\ Avail(data, p, 8)     \* 0xcf
             THEN Res(TRUE, p + 8, ZeroExt(Bytes(data, p, 8)), p + 8)
             ELSE Res(FALSE, p, U64(0), p)

read_int(data, pos) ==
    IF pos >= Len(data) THEN Res(FALSE, pos, U64(0), 0)
    ELSE LET byte == At(data, pos)
         IN  IF byte <= 127
             THEN Res(TRUE, pos + 1, U64(byte), pos + 1)
             ELSE IF byte >= 224                          \* 0xe0
             THEN Res(TRUE, pos + 1, SignExt(<<byte>>), pos + 1)
             ELSE IF byte = 208 /\ Avail(data, pos, 2)   \* 0xd0
             THEN Res(TRUE, pos + 2, SignExt(Bytes(data, pos + 1, 1)), pos + 2)
             ELSE IF byte = 209 /\ Avail(data, pos, 3)   \* 0xd1
             THEN Res(TRUE, pos + 3, SignExt(Bytes(data, pos + 1, 2)), pos + 3)
             ELSE IF byte = 210 /\ Avail(data, pos, 5)   \* 0xd2
             THEN Res(TRUE, pos + 5, SignExt(Bytes(data, pos + 1, 4)), pos + 5)
             ELSE read_uint(data, pos)

read_float64(data, pos) ==
    IF pos >= Len(data) THEN Res(FALSE, pos, U64(0), 0)
    ELSE LET byte == At(data, pos)
             p == pos + 1
         IN  IF byte = 203 /\ Avail(data, p, 8)          \* 0xcb
             THEN Res(TRUE, p + 8, Bytes(data, p, 8), p + 8)
             ELSE Res(FALSE, p, U64(0), p)

(***************************************************************************)
(* The sample arrays.  n and arr are the out parameters: n0 and arr0 are   *)
(* their values before the call.  arr is the prefix of the caller's buffer *)
(* that the call has stored (slots 0 .. Len(arr) - 1); the slots behind it *)
(* keep older samples, which TTree::Fill never reads, since it reads n     *)
(* slots.  size is the local variable holding the declared length.         *)
(***************************************************************************)
\* steps counts the iterations of the element loop that have run (0: no loop)
ARes(ok, pos, n, arr, size, hi) ==
    [ok |-> ok, pos |-> pos, n |-> n, arr |-> arr, size |-> size, hi |-> hi, steps |-> 0]

\* a loop that ends at the capacity of the branch buffer
LoopBound_capped(size) ==
    IF Fits31(size) THEN Min(Num(size), MAX_WAVEFORM_SAMPLES) ELSE MAX_WAVEFORM_SAMPLES

\* The bound of "for (size_t i = 0; i < size; i++)" as a TLC integer.  Every
\* iteration consumes a byte or fails, and a buffer holds fewer than 2^31 - 1
\* bytes, so the iterations from 2^31 - 1 on never run.
LoopBound(size) == IF Fits31(size) THEN Num(size) ELSE 2147483647

\* One iteration of the loop of read_i16_array (s.ok: no iteration has returned false)
I16Step(data, s, i, max_size) ==
    LET Store(r) ==
            [ok |-> r.ok, pos |-> r.pos,
             arr |-> IF r.ok /\ i < max_size THEN Append(s.arr, CastI16(r.val)) ELSE s.arr,
             hi |-> Max(s.hi, r.hi), steps |-> s.steps + 1]
    IN  Store(read_int(data, s.pos))

\* Iterations lo .. hi - 1 of that loop, in order, stopping at the first that
\* fails.  The range is halved so that the evaluation depth stays logarithmic
\* in the declared length.
RECURSIVE I16Loop(_, _, _, _, _)
I16Loop(data, s, lo, hi, max_size) ==
    IF lo >= hi \/ ~s.ok THEN s
    ELSE IF hi = lo + 1 THEN I16Step(data, s, lo, max_size)
    ELSE I16Loop(data, I16Loop(data, s, lo, lo + (hi - lo) \div 2, max_size),
                 lo + (hi - lo) \div 2, hi, max_size)

\* The same iterations lo .. hi - 1 taken in runs of n, 256 n, 65536 n, ... of
\* them, so that the evaluation depth follows the number of iterations that
\* run and not the number the header declares.
FirstRun == 256
RunEnd(lo, n, hi) == IF n >= hi - lo THEN hi ELSE lo + n
NextRun(n, hi) == IF n > hi \div 256 THEN hi ELSE 256 * n

RECURSIVE I16Run(_, _, _, _, _, _)
I16Run(data, s, lo, n, hi, max_size) ==
    IF lo >= hi \/ ~s.ok THEN s
    ELSE I16Run(data, I16Loop(data, s, lo, RunEnd(lo, n, hi), max_size),
                RunEnd(lo, n, hi), NextRun(n, hi), hi, max_size)

\* the declared length itself, whatever the capacity of the caller's buffer
SampleCount_uncapped(size, max_size) == CastInt(size)

\* n = std::min(static_cast<int>(size), max_size)
SampleCount(size, max_size) == Min(CastInt(size), max_size)

read_i16_array(data, pos, n0, arr0, max_size) ==
    LET Done(h, l) ==
            [ARes(l.ok, l.pos, SampleCount(h.val, max_size), l.arr, h.val, l.hi)
                EXCEPT !.steps = l.steps]
        Samples(h) ==
            IF ~h.ok THEN ARes(FALSE, h.pos, n0, arr0, U64(0), h.hi)
            ELSE Done(h, I16Run(data, [ok |-> TRUE, pos |-> h.pos, arr |-> <<>>, hi |-> h.hi,
                                       steps |-> 0],
                                0, FirstRun, LoopBound(h.val), max_size))
    IN  Samples(read_array_header(data, pos))

read_bin(data, pos, n0, arr0, max_size) ==
    IF pos >= Len(data) THEN ARes(FALSE, pos, n0, arr0, U64(0), 0)
    ELSE LET byte == At(data, pos)
             p == pos + 1
             Copy(hdr) ==
                 IF ~hdr.ok THEN ARes(FALSE, hdr.pos, n0, arr0, U64(0), hdr.pos)
                 \* pos_ + size > data_.size(), written without the sum
                 ELSE IF GtU64(hdr.size, Len(data) - hdr.pos)
                 THEN ARes(FALSE, hdr.pos, SampleCount(hdr.size, max_size), arr0,
                           hdr.size, hdr.pos)
                 \* memcpy(arr, &data_[pos_], n) reads n bytes
                 ELSE ARes(TRUE, hdr.pos + Num(hdr.size), SampleCount(hdr.size, max_size),
                           Bytes(data, hdr.pos, SampleCount(hdr.size, max_size)), hdr.size,
                           hdr.pos + Max(SampleCount(hdr.size, max_size), 0))
         IN  Copy(IF byte = 196 /\ Avail(data, p, 1)        \* 0xc4
                  THEN [ok |-> TRUE, pos |-> p + 1, size |-> ZeroExt(Bytes(data, p, 1))]
                  ELSE IF byte = 197 /\ Avail(data, p, 2)   \* 0xc5
                  THEN [ok |-> TRUE, pos |-> p + 2, size |-> ZeroExt(Bytes(data, p, 2))]
                  ELSE IF byte = 198 /\ Avail(data, p, 4)   \* 0xc6
                  THEN [ok |-> TRUE, pos |-> p + 4, size |-> ZeroExt(Bytes(data, p, 4))]
                  ELSE [ok |-> FALSE, pos |-> p, size |-> U64(0)])

\* One iteration of the array loop of read_u8_array
U8Step(data, s, i, max_size) ==
    LET Store(r) ==
            [ok |-> r.ok, pos |-> r.pos,
             arr |-> IF r.ok /\ i < max_size THEN Append(s.arr, CastU8(r.val)) ELSE s.arr,
             hi |-> Max(s.hi, r.hi), steps |-> s.steps + 1]
    IN  Store(read_uint(data, s.pos))

RECURSIVE U8Loop(_, _, _, _, _)
U8Loop(data, s, lo, hi, max_size) ==
    IF lo >= hi \/ ~s.ok THEN s
    ELSE IF hi = lo + 1 THEN U8Step(data, s, lo, max_size)
    ELSE U8Loop(data, U8Loop(data, s, lo, lo + (hi - lo) \div 2, max_size),
                lo + (hi - lo) \div 2, hi, max_size)

RECURSIVE U8Run(_, _, _, _, _, _)
U8Run(data, s, lo, n, hi, max_size) ==
    IF lo >= hi \/ ~s.ok THEN s
    ELSE U8Run(data, U8Loop(data, s, lo, RunEnd(lo, n, hi), max_size),
               RunEnd(lo, n, hi), NextRun(n, hi), hi, max_size)

read_u8_array(data, pos, n0, arr0, max_size) ==
    LET Done(h, l) ==
            [ARes(l.ok, l.pos, SampleCount(h.val, max_size), l.arr, h.val, l.hi)
                EXCEPT !.steps = l.steps]
        Samples(h) ==
            IF ~h.ok THEN ARes(FALSE, h.pos, n0, arr0, U64(0), h.hi)
            ELSE Done(h, U8Run(data, [ok |-> TRUE, pos |-> h.pos, arr |-> <<>>, hi |-> h.hi,
                                      steps |-> 0],
                               0, FirstRun, LoopBound(h.val), max_size))
    IN  IF pos >= Len(data) THEN ARes(FALSE, pos, n0, arr0, U64(0), 0)
        ELSE IF At(data, pos) = 196 \/ At(data, pos) = 197 \/ At(data, pos) = 198
        THEN read_bin(data, pos, n0, arr0, max_size)
        ELSE Samples(read_array_header(data, pos))

(***************************************************************************)
(* The schema decoders.  A decoder is threaded through its reads as a      *)
(* record s: s.ok (no read has returned false so far), s.pos (pos_), s.hi  *)
(* and the out parameters.  A read that fails leaves the out parameters    *)
(* assigned so far assigned, and every later read is skipped.              *)
(***************************************************************************)
\* pos_ and the return value after a call r of a read primitive
After(s, r) == [s EXCEPT !.ok = r.ok, !.pos = r.pos, !.hi = Max(s.hi, r.hi)]

\* a decoder that stores every unsigned field through uint8_t
Cast_all_u8(w, v) == IF w = 64 THEN v ELSE CastU8(v)

\* static_cast to the unsigned type of w bits of the out parameter
Cast(w, v) == IF w = 8 THEN CastU8(v) ELSE IF w = 16 THEN CastU16(v)
              ELSE IF w = 32 THEN CastU32(v) ELSE v

\*   if (!read_uint(tmp)) return false;  <f> = static_cast<uintw_t>(tmp);
\* s.b holds the out parameters
UintField(data, s, f, w) ==
    LET Store(r) == IF r.ok THEN [After(s, r) EXCEPT !.b = [@ EXCEPT ![f] = Cast(w, r.val)]]
                    ELSE After(s, r)
    IN  IF ~s.ok THEN s ELSE Store(read_uint(data, s.pos))

\*   if (!read_float64(<f>)) return false;
Float64Field(data, s, f) ==
    LET Store(r) == IF r.ok THEN [After(s, r) EXCEPT !.b = [@ EXCEPT ![f] = r.val]]
                    ELSE After(s, r)
    IN  IF ~s.ok THEN s ELSE Store(read_float64(data, s.pos))

\* module, channel, energy, energy_short, timestamp_ns, flags: the six reads
\* that both parse_event functions make after the array header
EventFields(data, s) ==
    UintField(data,
        Float64Field(data,
            UintField(data,
                UintField(data,
                    UintField(data,
                        UintField(data, s, "module", 8),
                        "channel", 8),
                    "energy", 16),
                "energy_short", 16),
            "timestamp_ns"),
        "flags", 64)

(***************************************************************************)
(* convert_to_tree.C: the schema decoder.  bv is the record of the branch  *)
(* variables the out parameters refer to.  msgs are the warnings written.  *)
(***************************************************************************)
BatchRes(ok, pos, source_id, n, hi) ==
    [ok |-> ok, pos |-> pos, source_id |-> source_id, num_events |-> n, hi |-> hi]

\*   if (!read_uint(src)) return false;  source_id = static_cast<uint32_t>(src);
BatchSource(data, s) ==
    LET Store(r) == IF r.ok THEN [After(s, r) EXCEPT !.source_id = CastU32(r.val)]
                    ELSE After(s, r)
    IN  IF ~s.ok THEN s ELSE Store(read_uint(data, s.pos))

\*   if (!read_uint(seq)) return false;     (and the same for ts)
BatchSkip(data, s) == IF ~s.ok THEN s ELSE After(s, read_uint(data, s.pos))

\*   if (!read_array_header(num_events)) return false;
BatchEvents(data, s) ==
    LET Store(r) == IF r.ok THEN [After(s, r) EXCEPT !.num_events = r.val] ELSE After(s, r)
    IN  IF ~s.ok THEN s ELSE Store(read_array_header(data, s.pos))

\* source_id0, n0: the out parameters before the call
parse_batch_header(data, pos, source_id0, n0) ==
    LET Members(h) ==
            IF ~h.ok \/ h.val # U64(4) THEN BatchRes(FALSE, h.pos, source_id0, n0, h.hi)
            ELSE BatchEvents(data,
                     BatchSkip(data,
                         BatchSkip(data,
                             BatchSource(data, BatchRes(TRUE, h.pos, source_id0, n0, h.hi)))))
    IN  Members(read_array_header(data, pos))

WfRes(ok, pos, bv, hi, msgs) ==
    [ok |-> ok, pos |-> pos, b |-> bv, hi |-> hi, msgs |-> msgs]

\* One sample array of the waveform: nf and af name the branch variables that
\* receive the count and the samples.
\*   if (!read_i16_array(analogN, n_analogN, MAX_WAVEFORM_SAMPLES)) return false;
WfI16(data, s, nf, af) ==
    LET Store(a) == [After(s, a) EXCEPT !.b = [@ EXCEPT ![nf] = a.n, ![af] = a.arr]]
    IN  IF ~s.ok THEN s
        ELSE Store(read_i16_array(data, s.pos, s.b[nf], s.b[af], MAX_WAVEFORM_SAMPLES))

\*   if (!read_u8_array(digitalN, n_digitalN, MAX_WAVEFORM_SAMPLES)) return false;
WfU8(data, s, nf, af) ==
    LET Store(a) == [After(s, a) EXCEPT !.b = [@ EXCEPT ![nf] = a.n, ![af] = a.arr]]
    IN  IF ~s.ok THEN s
        ELSE Store(read_u8_array(data, s.pos, s.b[nf], s.b[af], MAX_WAVEFORM_SAMPLES))

parse_waveform(data, pos, b0) ==
    LET Members(h) ==
            IF ~h.ok \/ h.val # U64(8)
            THEN WfRes(FALSE, h.pos, b0, h.hi, <<"Unexpected waveform array size">>)
            ELSE UintField(data,
                 UintField(data,
                 WfU8(data,
                 WfU8(data,
                 WfU8(data,
                 WfU8(data,
                 WfI16(data,
                 WfI16(data, WfRes(TRUE, h.pos, b0, h.hi, <<>>), "n_analog1", "analog1"),
                       "n_analog2", "analog2"),
                      "n_digital1", "digital1"),
                      "n_digital2", "digital2"),
                      "n_digital3", "digital3"),
                      "n_digital4", "digital4"),
                           "time_resolution", 8),
                           "trigger_threshold", 16)
    IN  Members(read_array_header(data, pos))

\* hdr: the outcome of the read of the event's array header (ev_size is hdr.val)
EvRes(ok, pos, bv, hi, msgs, hdr) ==
    [ok |-> ok, pos |-> pos, b |-> bv, hi |-> hi, msgs |-> msgs, hdr |-> hdr]

\* a decoder that knows the six-field event only
BadEventSize_six_only(ev_size) == ev_size # U64(6)

\* ev_size != 6 && ev_size != 7
BadEventSize(ev_size) == ev_size # U64(6) /\ ev_size # U64(7)

\* has_waveform = (ev_size == 7), the waveform branches reset, and the
\* waveform decoded when there is one; s is the decoder after the six fields
EventWaveform(data, s) ==
    LET Merge(w) == [s EXCEPT !.ok = w.ok, !.pos = w.pos, !.b = w.b,
                              !.hi = Max(s.hi, w.hi), !.msgs = w.msgs]
        Decode(b7) == IF b7.has_waveform THEN Merge(parse_waveform(data, s.pos, b7))
                      ELSE [s EXCEPT !.b = b7]
    IN  IF ~s.ok THEN s
        ELSE Decode([s.b EXCEPT !.has_waveform = (s.hdr.val = U64(7)),
                                !.n_analog1 = 0, !.n_analog2 = 0,
                                !.n_digital1 = 0, !.n_digital2 = 0,
                                !.n_digital3 = 0, !.n_digital4 = 0,
                                !.time_resolution = 0, !.trigger_threshold = 0])

parse_event(data, pos, b0) ==
    LET Members(h) ==
            IF ~h.ok THEN EvRes(FALSE, h.pos, b0, h.hi, <<>>, h)
            ELSE IF BadEventSize(h.val)
            THEN EvRes(FALSE, h.pos, b0, h.hi, <<"Unexpected event array size">>, h)
            ELSE EventWaveform(data, EventFields(data, EvRes(TRUE, h.pos, b0, h.hi, <<>>, h)))
    IN  Members(read_array_header(data, pos))

(***************************************************************************)
(* read_delila.C: the schema decoder (its read_array_header, read_uint and *)
(* read_float64 are the same text as convert_to_tree.C's).                 *)
(***************************************************************************)
\* struct Event before any member is assigned
NoEvent ==
    [module |-> 0, channel |-> 0, energy |-> 0, energy_short |-> 0,
     timestamp_ns |-> U64(0), flags |-> U64(0)]

DEvRes(ok, pos, ev, hi) == [ok |-> ok, pos |-> pos, ev |-> ev, hi |-> hi]

delila_parse_event(data, pos) ==
    LET Done(s) == DEvRes(s.ok, s.pos, s.b, s.hi)
        Members(h) ==
            IF ~h.ok \/ h.val # U64(6) THEN DEvRes(FALSE, h.pos, NoEvent, h.hi)
            ELSE Done(EventFields(data, [ok |-> TRUE, pos |-> h.pos, b |-> NoEvent,
                                         hi |-> h.hi]))
    IN  Members(read_array_header(data, pos))

\* One iteration of the event loop of parse_batch: s.events is the vector
DBatchStep(data, s) ==
    LET Push(r) ==
            [ok |-> r.ok, pos |-> r.pos,
             events |-> IF r.ok THEN Append(s.events, r.ev) ELSE s.events,
             hi |-> Max(s.hi, r.hi), steps |-> s.steps + 1]
    IN  Push(delila_parse_event(data, s.pos))

\* Iterations lo .. hi - 1 of that loop, stopping at the first that returns false
RECURSIVE DBatchLoop(_, _, _, _)
DBatchLoop(data, s, lo, hi) ==
    IF lo >= hi \/ ~s.ok THEN s
    ELSE IF hi = lo + 1 THEN DBatchStep(data, s)
    ELSE DBatchLoop(data, DBatchLoop(data, s, lo, lo + (hi - lo) \div 2),
                    lo + (hi - lo) \div 2, hi)

\* The same iterations taken in runs of n, 256 n, ... of them, as in I16Run
RECURSIVE DBatchRun(_, _, _, _, _)
DBatchRun(data, s, lo, n, hi) ==
    IF lo >= hi \/ ~s.ok THEN s
    ELSE DBatchRun(data, DBatchLoop(data, s, lo, RunEnd(lo, n, hi)),
                   RunEnd(lo, n, hi), NextRun(n, hi), hi)

\* steps counts the iterations of the event loop that have run
DBatchRes(ok, pos, source_id, evs, hi) ==
    [ok |-> ok, pos |-> pos, source_id |-> source_id, events |-> evs, hi |-> hi,
     steps |-> 0]

\* events0: the caller's vector before the call (empty)
parse_batch(data, pos, source_id0, events0) ==
    LET Done(hd, l) ==
            [DBatchRes(l.ok, l.pos, hd.source_id, l.events, l.hi) EXCEPT !.steps = l.steps]
        Events(hd) ==
            IF ~hd.ok THEN DBatchRes(FALSE, hd.pos, hd.source_id, events0, hd.hi)
            ELSE Done(hd, DBatchRun(data, [ok |-> TRUE, pos |-> hd.pos,
                                           events |-> events0, hi |-> hd.hi,
                                           steps |-> 0],
                                    0, 1, LoopBound(hd.num_events)))
    IN  Events(parse_batch_header(data, pos, source_id0, U64(0)))

(***************************************************************************)
(* The stream.  f.read(buf, n) on a stream that is good delivers the bytes *)
(* left, at most n; fewer than n set eofbit and failbit.  On a stream that *)
(* has failed it delivers nothing, and seekg does nothing.  tellg() is -1  *)
(* on a failed stream.                                                     *)
(***************************************************************************)
Tellg(pos, fail) == IF fail THEN -1 ELSE pos

\* the number of bytes f.read delivers for a request of n bytes
Delivered(f, pos, fail, n) == IF fail THEN 0 ELSE Min(n, Max(0, Len(f) - pos))

\* the bytes of f from offset pos on, n of them
Slice(f, pos, n) == SubSeq(f, pos + 1, pos + n)

\* the 64-bit pattern of n little-endian bytes (read_u32_le, read_u64_le, read_f64_le)
LittleEndian(bs) == ZeroExt([k \in 1..Len(bs) |-> bs[Len(bs) + 1 - k]])

IoRead(at, n, what) == [at |-> at, n |-> n, what |-> what]

\* a value read from a buffer that no read has filled
Indeterminate == {U64(0), U64(1), U64(255)}

(***************************************************************************)
(* The state before the first call of the schema decoder.                  *)
(***************************************************************************)
\* the branch variables, which convert_to_tree declares without a value; no
\* entry is filled before parse_event has assigned every one of them
NoBranches ==
    [module |-> 0, channel |-> 0, energy |-> 0, energy_short |-> 0,
     timestamp_ns |-> U64(0), flags |-> U64(0), has_waveform |-> FALSE,
     n_analog1 |-> 0, analog1 |-> <<>>, n_analog2 |-> 0, analog2 |-> <<>>,
     n_digital1 |-> 0, digital1 |-> <<>>, n_digital2 |-> 0, digital2 |-> <<>>,
     n_digital3 |-> 0, digital3 |-> <<>>, n_digital4 |-> 0, digital4 |-> <<>>,
     time_resolution |-> 0, trigger_threshold |-> 0]

\* what tree->Fill() stores: each scalar branch, and n slots of each array branch
TreeEntry(bv) ==
    [bv EXCEPT !.analog1 = SubSeq(bv.analog1, 1, bv.n_analog1),
               !.analog2 = SubSeq(bv.analog2, 1, bv.n_analog2),
               !.digital1 = SubSeq(bv.digital1, 1, bv.n_digital1),
               !.digital2 = SubSeq(bv.digital2, 1, bv.n_digital2),
               !.digital3 = SubSeq(bv.digital3, 1, bv.n_digital3),
               !.digital4 = SubSeq(bv.digital4, 1, bv.n_digital4)]

\* the six fields of struct Event
SixFields(r) ==
    [module |-> r.module, channel |-> r.channel, energy |-> r.energy,
     energy_short |-> r.energy_short, timestamp_ns |-> r.timestamp_ns,
     flags |-> r.flags]

\* A decoder call: op, the bool it returned, pos_ before and after, one past the
\* highest index it read, pos_ after its array or bin header (-1: the header
\* was not read), the length the header declared, the sample count n and the
\* number of samples stored, and the number of records the step emitted;
\* steps is the number of iterations its element loop ran (0: no loop), and
\* source_id the out parameter of that name (4 bytes, of the batch decoders).
Call(op, ok, prev, pos, hi, hdr, size, n, stored, emitted) ==
    [op |-> op, ok |-> ok, prev |-> prev, pos |-> pos, hi |-> hi, hdr |-> hdr,
     size |-> size, n |-> n, stored |-> stored, emitted |-> emitted, steps |-> 0,
     source_id |-> <<0, 0, 0, 0>>]

NoCall == Call("none", TRUE, 0, 0, 0, -1, U64(0), 0, 0, 0)

\* a sink that puts the newest record first
Emit_front(records, r) == <<r>> \o records

\* tree->Fill() / all_events.push_back(ev): the record is added behind the
\* records the sink holds
Emit(records, r) == Append(records, r)

\* a reader that ignores max_events
LimitReached_never(count) == FALSE

\* max_events > 0 && count >= max_events
LimitReached(count) == max_events > 0 /\ count >= max_events

(***************************************************************************)
(* The two macros.  Init is the state after the input file was opened and  *)
(* its size taken (f.seekg(0, end); file_size = f.tellg(); f.seekg(0)).    *)
(***************************************************************************)
parserVars == <<block_data, pos_, num_events, ev_i, events, b, decoded, last>>
outVars == <<sink, block_count, event_count, waveform_count, out_created, footer>>
inputVars == <<reader, file, max_events>>

\* a header check that accepts any eight bytes
SameMagic_any(magic) == TRUE

\* std::memcmp(magic, FILE_MAGIC, 8) == 0, for the 8 bytes of a full read
SameMagic(magic) == magic = FILE_MAGIC

\* read_header.  A file shorter than 8 bytes leaves the tail of magic[]
\* unwritten, so that memcmp compares against whatever the stack held; a file
\* shorter than 12 bytes leaves header_len unwritten likewise.
ReadHeader ==
    /\ pc = "start"
    /\ LET got == Delivered(file, fpos, ffail, 8)
           magic == Slice(file, fpos, got)
           pos1 == fpos + got
           fail1 == ffail \/ got < 8
           got2 == Delivered(file, pos1, fail1, 4)
           pos2 == pos1 + got2
           fail2 == fail1 \/ got2 < 4
       IN  \E same \in (IF got = 8 THEN {SameMagic(magic)}
                        ELSE IF magic = SubSeq(FILE_MAGIC, 1, got) THEN BOOLEAN
                        ELSE {FALSE}) :
             IF ~same
             THEN /\ cerr' = Append(cerr, "Invalid file magic")
                  /\ pc' = "done"
                  /\ fpos' = pos1
                  /\ ffail' = fail1
                  /\ io' = Append(io, IoRead(Tellg(fpos, ffail), 8, "magic"))
                  /\ header_end_pos' = header_end_pos
             ELSE \E header_len \in (IF got2 = 4 THEN {LittleEndian(Slice(file, pos1, 4))}
                                     ELSE Indeterminate) :
                  /\ cerr' = cerr
                  /\ pc' = IF reader = "convert_to_tree" THEN "create_output" ELSE "footer"
                  /\ ffail' = fail2
                  \* f.seekg(header_len, std::ios::cur)
                  /\ fpos' = IF fail2 THEN pos2 ELSE pos2 + Num(header_len)
                  \* header_end_pos = f.tellg(): -1 stands for (size_t)-1
                  /\ header_end_pos' = Tellg(fpos', fail2)
                  /\ io' = io \o <<IoRead(Tellg(fpos, ffail), 8, "magic"),
                                   IoRead(Tellg(pos1, fail1), 4, "header_len")>>
    /\ UNCHANGED <<inputVars, data_end, block_len, parserVars, outVars, stop>>

\* convert_to_tree: new TFile(out_name, "RECREATE"), the tree and its branches
CreateOutput ==
    /\ pc = "create_output"
    /\ \E opened \in BOOLEAN :
         /\ out_created' = opened
         /\ pc' = IF opened THEN "seek_data" ELSE "done"
         /\ cerr' = IF opened THEN cerr ELSE Append(cerr, "Cannot create output file")
    /\ UNCHANGED <<inputVars, fpos, ffail, header_end_pos, data_end, block_len, parserVars,
                   sink, block_count, event_count, waveform_count, footer, io, stop>>

\* a reader that takes total_events and data_bytes in the other order
FooterFields_swapped(bs) ==
    [data_checksum |-> LittleEndian(SubSeq(bs, 1, 8)),
     total_events |-> LittleEndian(SubSeq(bs, 17, 24)),
     data_bytes |-> LittleEndian(SubSeq(bs, 9, 16)),
     first_event_time_ns |-> LittleEndian(SubSeq(bs, 25, 32)),
     last_event_time_ns |-> LittleEndian(SubSeq(bs, 33, 40)),
     file_end_time_ns |-> LittleEndian(SubSeq(bs, 41, 48)),
     write_complete |-> bs[49]]

\* the fields read_footer reads after the magic
FooterFields(bs) ==
    [data_checksum |-> LittleEndian(SubSeq(bs, 1, 8)),
     total_events |-> LittleEndian(SubSeq(bs, 9, 16)),
     data_bytes |-> LittleEndian(SubSeq(bs, 17, 24)),
     first_event_time_ns |-> LittleEndian(SubSeq(bs, 25, 32)),
     last_event_time_ns |-> LittleEndian(SubSeq(bs, 33, 40)),
     file_end_time_ns |-> LittleEndian(SubSeq(bs, 41, 48)),
     write_complete |-> bs[49]]

\* a caller that gives up when read_footer returns false
AfterFooter_checked(ok) == IF ok THEN "seek_data" ELSE "done"

\* read_footer(f, file_size); as a statement: the bool it returns is dropped
AfterFooter(ok) == "seek_data"

\* read_delila: read_footer(f, file_size)
ReadFooter ==
    /\ pc = "footer"
    /\ pc' = AfterFooter(Len(file) >= FOOTER_SIZE
                         /\ Slice(file, Len(file) - FOOTER_SIZE, 8) = FOOTER_MAGIC)
    /\ IF Len(file) < FOOTER_SIZE
       THEN /\ cerr' = Append(cerr, "File too small for footer")
            /\ UNCHANGED <<fpos, ffail, footer, io>>
       ELSE LET at == Len(file) - FOOTER_SIZE         \* f.seekg(file_size - FOOTER_SIZE)
                magic == Slice(file, at, 8)
            IN  /\ ffail' = ffail
                /\ IF magic # FOOTER_MAGIC
                   THEN /\ cerr' = Append(cerr, "Invalid footer magic")
                        /\ fpos' = at + 8
                        /\ footer' = footer
                        /\ io' = Append(io, IoRead(at, 8, "footer_magic"))
                   ELSE /\ cerr' = cerr
                        /\ fpos' = at + 57
                        /\ footer' = FooterFields(Slice(file, at + 8, 49))
                        /\ io' = io \o <<IoRead(at, 8, "footer_magic"),
                                         IoRead(at + 8, 49, "footer_fields")>>
    /\ UNCHANGED <<inputVars, header_end_pos, data_end, block_len, parserVars,
                   sink, block_count, event_count, waveform_count, out_created, stop>>

\* size_t data_end = file_size - FOOTER_SIZE; f.seekg(header_end_pos).  For a
\* file shorter than the footer the subtraction wraps; the loop test converts
\* data_end to the signed std::streampos, which is this negative number.
SeekData ==
    /\ pc = "seek_data"
    /\ data_end' = Len(file) - FOOTER_SIZE
    /\ fpos' = IF ffail THEN fpos ELSE header_end_pos
    /\ pc' = "loop"
    /\ UNCHANGED <<inputVars, ffail, header_end_pos, block_len, parserVars, outVars,
                   cerr, io, stop>>

\* while (f.tellg() < static_cast<std::streampos>(data_end))
MoreData == Tellg(fpos, ffail) < data_end

\* a reader that takes a block of length 0
InvalidBlockLen_ceiling_only(len) == GtU64(len, MAX_BLOCK_LEN)

\* a ceiling that is one too low: block_len >= 100000000
InvalidBlockLen_at_ceiling(len) == len = U64(0) \/ GtU64(len, 99999999)

\* block_len == 0 || block_len > 100000000
InvalidBlockLen(len) == len = U64(0) \/ GtU64(len, MAX_BLOCK_LEN)

\* the loop test holds: read_u32_le and the check of the length
ReadBlockLen ==
    /\ pc = "loop"
    /\ MoreData
    /\ LET got == Delivered(file, fpos, ffail, 4)
       IN  \E len \in (IF got = 4 THEN {LittleEndian(Slice(file, fpos, 4))}
                       ELSE Indeterminate) :
             /\ block_len' = len
             /\ fpos' = fpos + got
             /\ ffail' = (ffail \/ got < 4)
             /\ io' = Append(io, IoRead(Tellg(fpos, ffail), 4, "block_len"))
             /\ IF InvalidBlockLen(len)
                THEN /\ cerr' = Append(cerr, "Invalid block length")
                     /\ stop' = "block_len"
                     /\ pc' = "finish"
                ELSE /\ cerr' = cerr
                     /\ stop' = stop
                     /\ pc' = "block_data"
    /\ UNCHANGED <<inputVars, header_end_pos, data_end, parserVars, outVars>>

\* the loop test fails
LoopExit ==
    /\ pc = "loop"
    /\ ~MoreData
    /\ pc' = "finish"
    /\ stop' = "data_end"
    /\ UNCHANGED <<inputVars, fpos, ffail, header_end_pos, data_end, block_len,
                   parserVars, outVars, cerr, io>>

\* std::vector<uint8_t> block_data(block_len); f.read(...); if (!f.good()) break.
\* After a short read the vector is dropped at once: its tail of zeroes is not kept.
ReadBlockData ==
    /\ pc = "block_data"
    /\ LET want == Num(block_len)
           got == Delivered(file, fpos, ffail, want)
       IN  /\ block_data' = Slice(file, fpos, got)
           /\ fpos' = fpos + got
           /\ ffail' = (ffail \/ got < want)
           /\ io' = Append(io, IoRead(Tellg(fpos, ffail), want, "block_data"))
           /\ IF ffail'
              THEN /\ cerr' = Append(cerr, "Read error at block")
                   /\ stop' = "read_error"
                   /\ pc' = "finish"
              ELSE /\ cerr' = cerr
                   /\ stop' = stop
                   /\ pc' = "parse"
    /\ UNCHANGED <<inputVars, header_end_pos, data_end, block_len, pos_, num_events,
                   ev_i, events, b, decoded, last, outVars>>

\* convert_to_tree: MsgPackParser parser(block_data); parser.parse_batch_header(...)
ParseBatchHeader ==
    /\ pc = "parse"
    /\ reader = "convert_to_tree"
    /\ \E r \in {parse_batch_header(block_data, 0, <<0, 0, 0, 0>>, num_events)} :
           /\ pos_' = r.pos
           /\ num_events' = r.num_events
           /\ ev_i' = 0
           /\ last' = [Call("parse_batch_header", r.ok, 0, r.pos, r.hi, -1, U64(0), 0, 0, 0)
                           EXCEPT !.source_id = r.source_id]
           /\ IF r.ok
              THEN /\ pc' = "events"
                   /\ UNCHANGED <<cerr, stop>>
              ELSE /\ cerr' = Append(cerr, "Failed to parse block")
                   /\ stop' = "parse_block"
                   /\ pc' = "finish"
    /\ UNCHANGED <<inputVars, fpos, ffail, header_end_pos, data_end, block_len,
                   block_data, events, b, decoded, outVars, io>>

\* convert_to_tree: one iteration of "for (size_t i = 0; i < num_events; i++)"
ParseEvent ==
    /\ pc = "events"
    /\ LtU64(ev_i, num_events)
    /\ \E r \in {parse_event(block_data, pos_, b)} :
           /\ pos_' = r.pos
           /\ b' = r.b
           /\ last' = Call("parse_event", r.ok, pos_, r.pos, r.hi,
                           IF r.hdr.ok THEN r.hdr.pos ELSE -1, r.hdr.val,
                           0, 0, IF r.ok THEN 1 ELSE 0)
           /\ IF r.ok
              THEN /\ sink' = Emit(sink, TreeEntry(r.b))            \* tree->Fill()
                   /\ event_count' = event_count + 1
                   /\ waveform_count' = waveform_count + (IF r.b.has_waveform THEN 1 ELSE 0)
                   /\ decoded' = Append(decoded, SixFields(r.b))
                   /\ cerr' = cerr
                   /\ IF LimitReached(event_count + 1)
                      THEN pc' = "block_done" /\ ev_i' = ev_i
                      ELSE pc' = "events" /\ ev_i' = ev_i + 1
              ELSE /\ cerr' = cerr \o r.msgs \o <<"Failed to parse event">>
                   /\ pc' = "block_done"
                   /\ UNCHANGED <<sink, event_count, waveform_count, decoded, ev_i>>
    /\ UNCHANGED <<inputVars, fpos, ffail, header_end_pos, data_end, block_len,
                   block_data, num_events, events, block_count, out_created, footer,
                   io, stop>>

\* convert_to_tree: the event loop ends with i == num_events
EventsDone ==
    /\ pc = "events"
    /\ ~LtU64(ev_i, num_events)
    /\ pc' = "block_done"
    /\ UNCHANGED <<inputVars, fpos, ffail, header_end_pos, data_end, block_len,
                   parserVars, outVars, cerr, io, stop>>

\* read_delila: MsgPackParser parser(block_data); parser.parse_batch(source_id, events)
ParseBatch ==
    /\ pc = "parse"
    /\ reader = "read_delila"
    /\ \E r \in {parse_batch(block_data, 0, <<0, 0, 0, 0>>, <<>>)} :
           /\ pos_' = r.pos
           /\ events' = r.events
           /\ ev_i' = 0
           /\ decoded' = decoded \o r.events
           /\ last' = [Call("parse_batch", r.ok, 0, r.pos, r.hi, -1, U64(0), 0, 0, 0)
                           EXCEPT !.steps = r.steps, !.source_id = r.source_id]
           /\ IF r.ok
              THEN /\ pc' = "add"
                   /\ UNCHANGED <<cerr, stop>>
              ELSE /\ cerr' = Append(cerr, "Failed to parse block")
                   /\ stop' = "parse_block"
                   /\ pc' = "finish"
    /\ UNCHANGED <<inputVars, fpos, ffail, header_end_pos, data_end, block_len,
                   block_data, num_events, b, outVars, io>>

\* read_delila: one iteration of "for (const auto& ev : events)"
AddEvent ==
    /\ pc = "add"
    /\ ev_i < Len(events)
    /\ sink' = Emit(sink, events[ev_i + 1])                         \* all_events.push_back(ev)
    /\ IF LimitReached(Len(sink) + 1)
       THEN pc' = "block_done" /\ ev_i' = ev_i
       ELSE pc' = "add" /\ ev_i' = ev_i + 1
    /\ UNCHANGED <<inputVars, fpos, ffail, header_end_pos, data_end, block_len,
                   block_data, pos_, num_events, events, b, decoded, last, block_count,
                   event_count, waveform_count, out_created, footer, cerr, io, stop>>

\* read_delila: the loop over events ends
AddDone ==
    /\ pc = "add"
    /\ ev_i >= Len(events)
    /\ pc' = "block_done"
    /\ UNCHANGED <<inputVars, fpos, ffail, header_end_pos, data_end, block_len,
                   parserVars, outVars, cerr, io, stop>>

\* the number of records emitted so far: event_count / all_events.size()
Emitted == IF reader = "read_delila" THEN Len(sink) ELSE event_count

\* block_count++ and the test of the limit that ends the streaming loop
BlockDone ==
    /\ pc = "block_done"
    /\ block_count' = block_count + 1
    /\ IF LimitReached(Emitted)
       THEN pc' = "finish" /\ stop' = "max_events"
       ELSE pc' = "loop" /\ stop' = stop
    /\ UNCHANGED <<inputVars, fpos, ffail, header_end_pos, data_end, block_len,
                   parserVars, sink, event_count, waveform_count, out_created, footer,
                   cerr, io>>

\* after the loop: convert_to_tree writes the tree and closes the file,
\* read_delila prints the events it holds
Finish ==
    /\ pc = "finish"
    /\ pc' = "done"
    /\ UNCHANGED <<inputVars, fpos, ffail, header_end_pos, data_end, block_len,
                   parserVars, outVars, cerr, io, stop>>

Next ==
    \/ ReadHeader
    \/ CreateOutput
    \/ ReadFooter
    \/ SeekData
    \/ ReadBlockLen
    \/ LoopExit
    \/ ReadBlockData
    \/ ParseBatchHeader
    \/ ParseEvent
    \/ EventsDone
    \/ ParseBatch
    \/ AddEvent
    \/ AddDone
    \/ BlockDone
    \/ Finish

(***************************************************************************)
(* The decoder called on a bare buffer: one action per read primitive, in  *)
(* any order, on the parser's data_ and pos_.  The sample arrays are read  *)
(* into the branch buffers parse_waveform passes (analog1, digital1).      *)
(* With pc = "samples" the buffer is a sample array, decoded once from its  *)
(* first byte.                                                             *)
(***************************************************************************)
CallReadArrayHeader ==
    /\ pc = "prim"
    /\ \E r \in {read_array_header(block_data, pos_)} :
           /\ pos_' = r.pos
           /\ last' = Call("read_array_header", r.ok, pos_, r.pos, r.hi,
                           IF r.ok THEN r.pos ELSE -1, r.val, 0, 0, 0)
    /\ UNCHANGED <<inputVars, pc, fpos, ffail, header_end_pos, data_end, block_len,
                   block_data, num_events, ev_i, events, b, decoded, outVars, cerr, io,
                   stop>>

CallReadUint ==
    /\ pc = "prim"
    /\ \E r \in {read_uint(block_data, pos_)} :
           /\ pos_' = r.pos
           /\ last' = Call("read_uint", r.ok, pos_, r.pos, r.hi, -1, r.val, 0, 0, 0)
    /\ UNCHANGED <<inputVars, pc, fpos, ffail, header_end_pos, data_end, block_len,
                   block_data, num_events, ev_i, events, b, decoded, outVars, cerr, io,
                   stop>>

CallReadInt ==
    /\ pc = "prim"
    /\ \E r \in {read_int(block_data, pos_)} :
           /\ pos_' = r.pos
           /\ last' = Call("read_int", r.ok, pos_, r.pos, r.hi, -1, r.val, 0, 0, 0)
    /\ UNCHANGED <<inputVars, pc, fpos, ffail, header_end_pos, data_end, block_len,
                   block_data, num_events, ev_i, events, b, decoded, outVars, cerr, io,
                   stop>>

CallReadFloat64 ==
    /\ pc = "prim"
    /\ \E r \in {read_float64(block_data, pos_)} :
           /\ pos_' = r.pos
           /\ last' = Call("read_float64", r.ok, pos_, r.pos, r.hi, -1, r.val, 0, 0, 0)
    /\ UNCHANGED <<inputVars, pc, fpos, ffail, header_end_pos, data_end, block_len,
                   block_data, num_events, ev_i, events, b, decoded, outVars, cerr, io,
                   stop>>

CallReadBin ==
    /\ pc = "prim"
    /\ \E r \in {read_bin(block_data, pos_, b.n_digital1, b.digital1, MAX_WAVEFORM_SAMPLES)} :
           /\ pos_' = r.pos
           /\ b' = [b EXCEPT !.n_digital1 = r.n, !.digital1 = r.arr]
           /\ last' = Call("read_bin", r.ok, pos_, r.pos, r.hi, -1, r.size, r.n,
                           Len(r.arr), 0)
    /\ UNCHANGED <<inputVars, pc, fpos, ffail, header_end_pos, data_end, block_len,
                   block_data, num_events, ev_i, events, decoded, outVars, cerr, io, stop>>

CallReadU8Array ==
    /\ pc = "prim" \/ (pc = "samples" /\ last = NoCall)
    /\ \E r \in {read_u8_array(block_data, pos_, b.n_digital1, b.digital1, MAX_WAVEFORM_SAMPLES)} :
           /\ pos_' = r.pos
           /\ b' = [b EXCEPT !.n_digital1 = r.n, !.digital1 = r.arr]
           /\ last' = [Call("read_u8_array", r.ok, pos_, r.pos, r.hi, -1, r.size, r.n,
                            Len(r.arr), 0) EXCEPT !.steps = r.steps]
    /\ UNCHANGED <<inputVars, pc, fpos, ffail, header_end_pos, data_end, block_len,
                   block_data, num_events, ev_i, events, decoded, outVars, cerr, io, stop>>

CallReadI16Array ==
    /\ pc = "prim" \/ (pc = "samples" /\ last = NoCall)
    /\ \E r \in {read_i16_array(block_data, pos_, b.n_analog1, b.analog1, MAX_WAVEFORM_SAMPLES)} :
           /\ pos_' = r.pos
           /\ b' = [b EXCEPT !.n_analog1 = r.n, !.analog1 = r.arr]
           /\ last' = [Call("read_i16_array", r.ok, pos_, r.pos, r.hi, -1, r.size, r.n,
                            Len(r.arr), 0) EXCEPT !.steps = r.steps]
    /\ UNCHANGED <<inputVars, pc, fpos, ffail, header_end_pos, data_end, block_len,
                   block_data, num_events, ev_i, events, decoded, outVars, cerr, io, stop>>

NextPrim ==
    \/ CallReadArrayHeader
    \/ CallReadUint
    \/ CallReadInt
    \/ CallReadFloat64
    \/ CallReadBin
    \/ CallReadU8Array
    \/ CallReadI16Array

NextSamples ==
    \/ CallReadU8Array
    \/ CallReadI16Array

(***************************************************************************)
(* The event decoders called once on a buffer that holds one event: the    *)
(* parse_event of convert_to_tree.C fills the branch variables, the        *)
(* parse_event of read_delila.C fills an Event that the caller keeps.      *)
(***************************************************************************)
CallParseEvent ==
    /\ pc = "event"
    /\ last = NoCall
    /\ \E r \in {parse_event(block_data, pos_, b)} :
           /\ pos_' = r.pos
           /\ b' = r.b
           /\ last' = Call("parse_event", r.ok, pos_, r.pos, r.hi,
                           IF r.hdr.ok THEN r.hdr.pos ELSE -1, r.hdr.val, 0, 0, 0)
    /\ UNCHANGED <<inputVars, pc, fpos, ffail, header_end_pos, data_end, block_len,
                   block_data, num_events, ev_i, events, decoded, outVars, cerr, io, stop>>

CallDelilaParseEvent ==
    /\ pc = "event"
    /\ last = NoCall
    /\ \E r \in {delila_parse_event(block_data, pos_)} :
           /\ pos_' = r.pos
           /\ events' = IF r.ok THEN <<r.ev>> ELSE <<>>
           /\ last' = Call("delila_parse_event", r.ok, pos_, r.pos, r.hi, -1, U64(0),
                           0, 0, 0)
    /\ UNCHANGED <<inputVars, pc, fpos, ffail, header_end_pos, data_end, block_len,
                   block_data, num_events, ev_i, b, decoded, outVars, cerr, io, stop>>

\* parse_batch_header called once on a buffer that holds one batch
CallParseBatchHeader ==
    /\ pc = "event"
    /\ last = NoCall
    /\ \E r \in {parse_batch_header(block_data, pos_, <<0, 0, 0, 0>>, num_events)} :
           /\ pos_' = r.pos
           /\ num_events' = r.num_events
           /\ last' = [Call("parse_batch_header", r.ok, pos_, r.pos, r.hi, -1, U64(0),
                             0, 0, 0) EXCEPT !.source_id = r.source_id]
    /\ UNCHANGED <<inputVars, pc, fpos, ffail, header_end_pos, data_end, block_len,
                   block_data, ev_i, events, b, decoded, outVars, cerr, io, stop>>

NextEvent ==
    \/ CallParseEvent
    \/ CallDelilaParseEvent

(***************************************************************************)
(* Bounds of the inputs.                                                   *)
(***************************************************************************)
MaxBlocks == 2      \* blocks per file, drawn from CorePayloads
MaxLimit == 3       \* max_events ranges over -1 .. MaxLimit
MaxBufLen == 3      \* length of the buffers drawn from TagBytes
MaxExcess == 1      \* declared sample counts range up to MAX_WAVEFORM_SAMPLES + MaxExcess

(***************************************************************************)
(* Input files, laid out as the recorder writes them:                      *)
(*   "DELILA02" u32_le(len) header, blocks u32_le(len) batch, 64-byte footer*)
(***************************************************************************)
RECURSIVE Flatten(_)
Flatten(ss) ==
    IF ss = <<>> THEN <<>>
    ELSE IF Len(ss) = 1 THEN ss[1]
    ELSE Flatten(SubSeq(ss, 1, Len(ss) \div 2))
         \o Flatten(SubSeq(ss, Len(ss) \div 2 + 1, Len(ss)))

Repeat(x, n) == [k \in 1..n |-> x]

\* n < 2^31 as 4 little-endian bytes
EncLen32(n) == <<n % 256, (n \div 256) % 256, (n \div 65536) % 256, (n \div 16777216) % 256>>

SeqsUpTo(S, n) == UNION {[1..k -> S] : k \in 0..n}

Prefixes(bs) == {SubSeq(bs, 1, k) : k \in 0..Len(bs)}

\* [source_id = 7, sequence_number = 1, timestamp = 0, events: fixarray of n]
Batch(n, evs) == <<148, 7, 1, 0, 144 + n>> \o evs

\* the fields {1, 2, 100, 50, 1234.5, 0} and the events built from them
SixF == <<1, 2, 100, 50, 203, 64, 147, 74, 0, 0, 0, 0, 0, 0>>
EvA == <<150>> \o SixF
\* {3, 4, 300 as uint16, 200 as uint8, 1.0, 2^63 + 1 as uint64}
EvB == <<150, 3, 4, 205, 1, 44, 204, 200, 203, 63, 240, 0, 0, 0, 0, 0, 0,
         207, 128, 0, 0, 0, 0, 0, 0, 1>>
\* analog1 = [1, -2], analog2 = [], digital1 = bin8 [1, 0], digital2 = [1],
\* digital3 = bin8 [], digital4 = [], time_resolution = 2, trigger_threshold = 256
Wf == <<152, 146, 1, 254, 144, 196, 2, 1, 0, 145, 1, 196, 0, 144, 2, 205, 1, 0>>
EvW == <<151, 5, 6, 7, 8, 203, 64, 0, 0, 0, 0, 0, 0, 0, 1>> \o Wf
\* an event array of 5 elements, and an event whose third field has tag 0xc0
EvFive == <<149, 1, 2, 100, 50, 0>>
EvNil == <<150, 1, 2, 192, 50, 203, 64, 147, 74, 0, 0, 0, 0, 0, 0>>

P_one == Batch(1, EvA)
P_two == Batch(2, EvA \o EvB)
P_empty == Batch(0, <<>>)
P_wave == Batch(1, EvW)
P_badbatch == <<147, 7, 1, 0, 145>> \o EvA          \* a batch array of 3 elements
P_badsecond == Batch(2, EvB \o EvFive)
P_badfirst == Batch(2, EvNil \o EvA)
P_short == Batch(2, EvA)                            \* declares 2 events, holds 1

CorePayloads == {P_one, P_two, P_empty, P_wave, P_badbatch, P_badsecond}

\* event array headers: every fixarray, array16 and array32
EvHdrs ==
    {<<144 + k>> : k \in 0..15}
    \cup {<<220, 0, 6>>, <<220, 0, 7>>, <<220, 1, 6>>, <<220, 0>>,
          <<221, 0, 0, 0, 6>>, <<221, 0, 0, 0, 7>>, <<221, 1, 0, 0, 7>>,
          <<221, 128, 0, 0, 6>>, <<221, 0, 0>>, <<192>>}

EventPayloads ==
    {Batch(1, h \o SixF \o Wf) : h \in EvHdrs}
    \cup {Batch(1, h \o SixF) : h \in {<<150>>, <<151>>}}
    \cup {Batch(1, <<151>> \o SixF \o <<151>> \o Tail(Wf)), P_badfirst, P_short}
    \* batches that declare 65535 and 2^32 - 1 events and hold 1 and 2
    \cup {<<148, 7, 1, 0, 220, 255, 255>> \o EvA,
          <<148, 7, 1, 0, 221, 255, 255, 255, 255>> \o EvA \o EvB}

Footer(magic, total, complete) ==
    magic \o <<1, 2, 3, 4, 5, 6, 7, 8>> \o <<total, 0, 0, 0, 0, 0, 0, 0>>
          \o <<16, 1, 0, 0, 0, 0, 0, 0>> \o <<0, 0, 0, 0, 0, 74, 147, 64>>
          \o <<0, 0, 0, 0, 0, 0, 240, 63>> \o <<9, 0, 0, 0, 0, 0, 0, 1>>
          \o <<complete>> \o Repeat(0, 7)

GoodFooter == Footer(FOOTER_MAGIC, 1, 1)
BadFooter == Footer(<<68, 76, 69, 78, 68, 48, 48, 49>>, 1, 1)     \* "DLEND001"
BAD_MAGIC == <<68, 69, 76, 73, 76, 65, 48, 49>>                   \* "DELILA01"

Block(payload) == EncLen32(Len(payload)) \o payload

MakeFile(magic, hdr, body, foot) == magic \o EncLen32(Len(hdr)) \o hdr \o body \o foot

\* well-framed files of up to MaxBlocks blocks
FramedFiles ==
    {MakeFile(FILE_MAGIC, v[1], Flatten([k \in 1..Len(ps) |-> Block(ps[k])]), v[2]) :
        ps \in SeqsUpTo(CorePayloads, MaxBlocks),
        v \in {<<<<>>, GoodFooter>>, <<<<>>, BadFooter>>, <<<<128, 1, 2>>, GoodFooter>>,
               <<<<>>, Footer(FOOTER_MAGIC, 3, 0)>>}}

EventFiles == {MakeFile(FILE_MAGIC, <<>>, Block(p), GoodFooter) : p \in EventPayloads}

\* block lengths that are not the length of the payload behind them
CraftedFiles ==
    {MakeFile(FILE_MAGIC, <<>>, pre \o len \o P_one \o Block(P_two), foot) :
        pre \in {<<>>, Block(P_two)},
        len \in {<<0, 0, 0, 0>>, <<1, 225, 245, 5>>, <<0, 225, 245, 5>>,
                 <<0, 0, 0, 128>>, <<255, 255, 255, 255>>, <<255, 224, 245, 5>>,
                 EncLen32(Len(P_one) + 8), EncLen32(Len(P_one) + Len(P_two) + 30),
                 EncLen32(Len(P_one) + Len(P_two) + 2),
                 <<1, 0, 0, 0>>},
        foot \in {GoodFooter, BadFooter}}

\* files that end early, and files that do not start with the magic
ShortFiles ==
    Prefixes(FILE_MAGIC \o <<0, 0, 0, 0>>)
    \cup {BAD_MAGIC, SubSeq(BAD_MAGIC, 1, 5),
          MakeFile(BAD_MAGIC, <<>>, Block(P_one), GoodFooter),
          MakeFile(<<0>> \o Tail(FILE_MAGIC), <<>>, Block(P_two), GoodFooter),
          MakeFile(FILE_MAGIC, <<>>, Block(P_one), SubSeq(GoodFooter, 1, 20)),
          FILE_MAGIC \o <<200, 0, 0, 0>> \o Block(P_one) \o GoodFooter,
          FILE_MAGIC \o <<0, 0, 0, 0>> \o SubSeq(GoodFooter, 1, 51)}

Files == FramedFiles \cup EventFiles \cup CraftedFiles \cup ShortFiles

InitWith(files, readers, limits, startpc, buffers) ==
    /\ reader \in readers
    /\ file \in files
    /\ max_events \in limits
    /\ pc = startpc
    /\ fpos = 0
    /\ ffail = FALSE
    /\ header_end_pos = 0
    /\ data_end = 0
    /\ block_len = U64(0)
    /\ block_data \in buffers
    /\ pos_ = 0
    /\ num_events = U64(0)
    /\ ev_i = 0
    /\ events = <<>>
    /\ b = NoBranches
    /\ sink = <<>>
    /\ block_count = 0
    /\ event_count = 0
    /\ waveform_count = 0
    /\ out_created = FALSE
    /\ cerr = <<>>
    /\ footer = "none"
    /\ io = <<>>
    /\ stop = ""
    /\ decoded = <<>>
    /\ last = NoCall

Init == InitWith(Files, {"convert_to_tree", "read_delila"}, -1..MaxLimit, "start", {<<>>})

Spec == Init /\ [][Next]_vars

\* buffers for the read primitives
TagBytes == {1, 128, 145, 196, 197, 204, 205, 208, 220, 255}

LongBuffers ==
    {<<206, 128, 0, 0, 1>>, <<207, 255, 1, 2, 3, 4, 5, 6, 7>>,
     <<203, 64, 147, 74, 0, 0, 0, 0, 0>>, <<210, 255, 255, 255, 254>>,
     <<198, 0, 0, 0, 2, 9, 8>>, <<198, 128, 0, 0, 0, 1>>, <<221, 0, 0, 0, 2, 1, 2>>,
     <<221, 255, 255, 255, 255, 1>>, <<197, 0, 2, 7, 7>>, <<220, 0, 2, 1, 255>>,
     <<146, 209, 255, 254, 208, 128>>, <<224, 0>>, <<159>>, <<144>>, <<196, 0>>,
     <<0>>, <<127>>, <<205, 1, 0>>, <<206, 255, 255, 255, 255>>, <<206, 0, 1, 0, 0>>,
     <<209, 128, 0>>, <<209, 127, 255>>, <<210, 128, 0, 0, 0>>, <<210, 127, 255, 255, 255>>,
     <<207, 0, 0, 0, 1, 0, 0, 0, 0>>}

PrimBuffers == SeqsUpTo(TagBytes, MaxBufLen) \cup UNION {Prefixes(l) : l \in LongBuffers}

InitPrim == InitWith({<<>>}, {"none"}, {-1}, "prim", PrimBuffers)

SpecPrim == InitPrim /\ [][NextPrim]_vars

\* The macros from start to end, and the sample-array decoders on arrays that
\* declare up to 2^32 - 1 elements and hold up to MaxBufLen bytes.  A macro is
\* a sequential program: it takes its next step whenever it has one.
SpecLive ==
    /\ \/ Init
       \/ InitWith({<<>>}, {"none"}, {-1}, "samples",
                   {h \o t : h \in {<<221, 255, 255, 255, 255>>, <<221, 128, 0, 0, 0>>,
                                    <<221, 0, 0, 0, 3>>, <<220, 255, 255>>, <<220, 0, 2>>,
                                    <<159>>, <<146>>},
                             t \in SeqsUpTo({1, 204, 255}, MaxBufLen)})
    /\ [][Next \/ NextSamples]_vars
    /\ WF_vars(ReadHeader \/ CreateOutput \/ ReadFooter \/ SeekData \/ ReadBlockLen
               \/ LoopExit \/ ReadBlockData \/ EventsDone \/ AddEvent \/ AddDone
               \/ BlockDone \/ Finish)
    \* weak fairness of the three steps that call the decoder, with their
    \* enabling conditions written out
    /\ []<>~(pc = "parse" /\ reader = "convert_to_tree") \/ []<><<ParseBatchHeader>>_vars
    /\ []<>~(pc = "events" /\ LtU64(ev_i, num_events)) \/ []<><<ParseEvent>>_vars
    /\ []<>~(pc = "parse" /\ reader = "read_delila") \/ []<><<ParseBatch>>_vars

\* sample arrays around the capacity of the branch buffers: declared lengths
\* up to MAX_WAVEFORM_SAMPLES + MaxExcess, as array16, array32, bin16 and bin32
\* (and as fixarray and bin8 where the length fits), with one-byte elements
Enc16(n) == <<n \div 256, n % 256>>
Enc32(n) == <<n \div 16777216, (n \div 65536) % 256, (n \div 256) % 256, n % 256>>

SampleLengths ==
    {0, 2, MAX_WAVEFORM_SAMPLES - 1, MAX_WAVEFORM_SAMPLES}
    \cup {MAX_WAVEFORM_SAMPLES + k : k \in 1..MaxExcess}

SampleHeaders(n) ==
    {<<220>> \o Enc16(n), <<221>> \o Enc32(n), <<197>> \o Enc16(n), <<198>> \o Enc32(n)}
    \cup (IF n < 16 THEN {<<144 + n>>, <<196, n>>} ELSE {})

\* elements 1 (a fixint), 255 (-1 for read_int, no tag of read_uint), and a
\* payload that is one element short
\* sample sequences of 0 to 255 values of 0 .. 255
SampleSeqs ==
    SeqsUpTo({0, 127, 128, 255}, 2)
    \cup {Repeat(v, n) : v \in {0, 128, 255}, n \in {15, 16, 255}}
    \cup {[k \in 1..255 |-> k], [k \in 1..16 |-> 16 * k - 1]}

\* s as a bin8 field
EncBin8(s) == <<196, Len(s)>> \o s

\* s as an array of unsigned integers: fixarray and the shortest encoding of
\* each element, or (wide) array16 and every element as uint8
EncU8Array(s, wide) ==
    (IF wide \/ Len(s) > 15 THEN <<220>> \o Enc16(Len(s)) ELSE <<144 + Len(s)>>)
    \o Flatten([k \in 1..Len(s) |-> IF wide \/ s[k] > 127 THEN <<204, s[k]>> ELSE <<s[k]>>])

SampleBuffers ==
    UNION {UNION {{h \o Repeat(1, n), h \o Repeat(255, n), h \o Repeat(1, Max(n - 1, 0))} :
                     h \in SampleHeaders(n)} : n \in SampleLengths}
    \cup UNION {{EncBin8(s), EncU8Array(s, FALSE), EncU8Array(s, TRUE)} : s \in SampleSeqs}

InitSamples == InitWith({<<>>}, {"none"}, {-1}, "samples", SampleBuffers)

SpecSamples == InitSamples /\ [][NextSamples]_vars

\* One event of six fields in every MessagePack encoding of its values.
\* A width of 0 is the positive fixint, widths 1, 2, 4 and 8 are the tags
\* 0xcc, 0xcd, 0xce and 0xcf followed by that many big-endian bytes.
BigEndian(v, w) == SubSeq(<<0, 0, 0, 0>> \o Enc32(v), 9 - w, 8)

EncUint(v, w) ==
    IF w = 0 THEN <<v>>
    ELSE <<IF w = 1 THEN 204 ELSE IF w = 2 THEN 205 ELSE IF w = 4 THEN 206 ELSE 207>>
         \o BigEndian(v, w)

\* the encodings of v in every width that holds it
UintEncodings(v) ==
    {EncUint(v, w) : w \in {w \in {0, 1, 2, 4, 8} :
        (w = 0 => v <= 127) /\ (w = 1 => v <= 255) /\ (w = 2 => v <= 65535)}}

\* flags: the 64-bit value (8 big-endian bytes) and one encoding of it
FlagCases ==
    UNION {{[val |-> <<0, 0, 0, 0>> \o Enc32(v), enc |-> x] : x \in UintEncodings(v)} :
              v \in {0, 200, 70000}}
    \cup {[val |-> <<0, 0, 0, 0, 255, 255, 255, 255>>, enc |-> <<206, 255, 255, 255, 255>>],
          [val |-> <<128, 0, 0, 0, 0, 0, 0, 1>>, enc |-> <<207, 128, 0, 0, 0, 0, 0, 0, 1>>],
          [val |-> Repeat(255, 8), enc |-> <<207>> \o Repeat(255, 8)]}

\* the record the recorder wrote (src) and its bytes (enc)
EventCase(m, em, c, ec, e, ee, s, es, t, f) ==
    [src |-> [module |-> m, channel |-> c, energy |-> e, energy_short |-> s,
              timestamp_ns |-> t, flags |-> f.val],
     enc |-> <<150>> \o em \o ec \o ee \o es \o <<203>> \o t \o f.enc]

\* {1, 2, 100, 50, 1234.5, 0} with one field at a time taking each of its
\* values in each encoding (timestamps 1234.5, 0.0, -0.0 and a NaN), and
\* events whose fields are all wide
EventCases ==
    LET U8Values == {0, 127, 128, 255}
        U16Values == {0, 255, 256, 65535}
        T == <<64, 147, 74, 0, 0, 0, 0, 0>>
        Timestamps == {T, Repeat(0, 8), <<128, 0, 0, 0, 0, 0, 0, 0>>, Repeat(255, 8)}
        NoFlags == [val |-> Repeat(0, 8), enc |-> <<0>>]
    IN  UNION {{EventCase(m, em, 2, <<2>>, 100, <<100>>, 50, <<50>>, T, NoFlags) :
                   em \in UintEncodings(m)} : m \in U8Values}
        \cup UNION {{EventCase(1, <<1>>, c, ec, 100, <<100>>, 50, <<50>>, T, NoFlags) :
                   ec \in UintEncodings(c)} : c \in U8Values}
        \cup UNION {{EventCase(1, <<1>>, 2, <<2>>, e, ee, 50, <<50>>, T, NoFlags) :
                   ee \in UintEncodings(e)} : e \in U16Values}
        \cup UNION {{EventCase(1, <<1>>, 2, <<2>>, 100, <<100>>, s, es, T, NoFlags) :
                   es \in UintEncodings(s)} : s \in U16Values}
        \cup {EventCase(1, <<1>>, 2, <<2>>, 100, <<100>>, 50, <<50>>, t, f) :
                   t \in Timestamps, f \in FlagCases}
        \cup {EventCase(255, EncUint(255, w), 128, EncUint(128, w), 65535, EncUint(65535, w),
                        256, EncUint(256, w), Repeat(255, 8), f) :
                   w \in {2, 4, 8}, f \in FlagCases}

\* An event with a waveform of which one probe (1, 2: analog; 3 .. 6: digital)
\* declares size samples, from the capacity of the branch buffers up to
\* MaxExcess more, as array16, array32, bin16 or bin32 with one byte per
\* sample; the other probes are those of Wf, and time_resolution = 2 and
\* trigger_threshold = 256 follow.
WaveformCases ==
    LET Small == <<<<146, 1, 254>>, <<144>>, <<196, 2, 1, 0>>, <<145, 1>>, <<196, 0>>, <<144>>>>
        Hdr(enc, L) ==
            IF enc = "array16" THEN <<220>> \o Enc16(L)
            ELSE IF enc = "array32" THEN <<221>> \o Enc32(L)
            ELSE IF enc = "bin16" THEN <<197>> \o Enc16(L)
            ELSE <<198>> \o Enc32(L)
        Samples(L) == [k \in 1..L |-> k % 128]
        Case(i, enc, L) ==
            [probe |-> i, size |-> L, samples |-> Samples(L),
             enc |-> <<151>> \o SixF \o <<152>>
                     \o Flatten([j \in 1..6 |-> IF j = i THEN Hdr(enc, L) \o Samples(L)
                                                         ELSE Small[j]])
                     \o <<2, 205, 1, 0>>]
        Sizes == MAX_WAVEFORM_SAMPLES..(MAX_WAVEFORM_SAMPLES + MaxExcess)
    IN  {Case(i, enc, L) : i \in 1..2, enc \in {"array16", "array32"}, L \in Sizes}
        \cup {Case(i, enc, L) : i \in 3..6, enc \in {"array16", "array32", "bin16", "bin32"},
                                L \in Sizes}

\* the event alone in the buffer, or followed by one more byte
SpecEvent ==
    /\ InitWith({<<>>}, {"none"}, {-1}, "event",
                UNION {{c.enc, c.enc \o <<192>>} : c \in EventCases}
                \cup {c.enc : c \in WaveformCases})
    /\ [][NextEvent]_vars

\* The unsigned integers q * 2^w + r, q > 0, that need more than the w bits
\* of lo, the big-endian bytes of r: as uint16, uint32 and uint64, the bytes
\* above lo being 0 .. 0 1, 128 0 .. 0 or 255 .. 255.
WideUints(lo) ==
    LET Hi(n) == {Repeat(0, n - 1) \o <<1>>, <<128>> \o Repeat(0, n - 1), Repeat(255, n)}
        W(tag, n) == IF n > Len(lo) THEN {<<tag>> \o h \o lo : h \in Hi(n - Len(lo))} ELSE {}
    IN  W(205, 2) \cup W(206, 4) \cup W(207, 8)

\* A buffer (enc) in which one field holds such an integer, and r (stored,
\* as the sequence of the one value r, or the 4 bytes of r for source_id):
\* an event of six fields, an event with a waveform (its probes those of Wf,
\* one of them an array of the one wide element), or a batch of no events.
\* An analog sample is also given as a uint16 of 32768 or more.
WideCases ==
    LET Case(f, enc, r) == [field |-> f, enc |-> enc, stored |-> r]
        U8(lo) == <<lo[1]>>
        U16(lo) == <<lo[1] * 256 + lo[2]>>
        I16(lo) == IF lo[1] >= 128 THEN <<U16(lo)[1] - 65536>> ELSE U16(lo)
        Lo8 == {<<0>>, <<44>>, <<255>>}
        Lo16 == {<<0, 0>>, <<1, 44>>, <<128, 0>>, <<255, 255>>}
        Lo32 == {<<0, 0, 0, 0>>, <<0, 0, 0, 7>>, <<128, 0, 0, 0>>, <<255, 255, 255, 255>>}
        Six(m, c, e, es) ==
            <<150>> \o m \o c \o e \o es \o <<203, 64, 147, 74, 0, 0, 0, 0, 0, 0>>
        Small == <<<<146, 1, 254>>, <<144>>, <<196, 2, 1, 0>>, <<145, 1>>, <<196, 0>>, <<144>>>>
        Wav(i, x, tr, tt) ==
            <<151>> \o SixF \o <<152>>
            \o Flatten([j \in 1..6 |-> IF j = i THEN <<145>> \o x ELSE Small[j]])
            \o tr \o tt
        Analog == <<"analog1", "analog2">>
        Digital == <<"digital1", "digital2", "digital3", "digital4">>
        Scalars8(lo, x) ==
            {Case("module", Six(x, <<2>>, <<100>>, <<50>>), U8(lo)),
             Case("channel", Six(<<1>>, x, <<100>>, <<50>>), U8(lo)),
             Case("time_resolution", Wav(0, <<>>, x, <<205, 1, 0>>), U8(lo))}
        Scalars16(lo, x) ==
            {Case("energy", Six(<<1>>, <<2>>, x, <<50>>), U16(lo)),
             Case("energy_short", Six(<<1>>, <<2>>, <<100>>, x), U16(lo)),
             Case("trigger_threshold", Wav(0, <<>>, <<2>>, x), U16(lo))}
    IN  UNION {UNION {Scalars8(lo, x) : x \in WideUints(lo)} : lo \in Lo8}
        \cup UNION {UNION {Scalars16(lo, x) : x \in WideUints(lo)} : lo \in Lo16}
        \cup UNION {{Case(Digital[i], Wav(i + 2, x, <<2>>, <<205, 1, 0>>), U8(lo)) :
                        x \in WideUints(lo), i \in 1..4} : lo \in Lo8}
        \cup UNION {{Case(Analog[i], Wav(i, x, <<2>>, <<205, 1, 0>>), I16(lo)) :
                        x \in WideUints(lo) \cup (IF lo[1] >= 128 THEN {<<205>> \o lo} ELSE {}),
                        i \in 1..2} : lo \in Lo16}
        \cup UNION {{Case("source_id", <<148>> \o x \o <<1, 0, 144>>, lo) :
                        x \in WideUints(lo)} : lo \in Lo32}

\* either parse_event, or parse_batch_header, called once on such a buffer
SpecWide ==
    /\ InitWith({<<>>}, {"none"}, {-1}, "event", {c.enc : c \in WideCases})
    /\ [][NextEvent \/ CallParseBatchHeader]_vars

(***************************************************************************)
(* What a run has reported and what it has read.                           *)
(***************************************************************************)
\* std::cerr << ... msg ...: the warning or error was written
Reported(msg) == \E i \in 1..Len(cerr) : cerr[i] = msg

\* parse_batch_header, parse_batch or parse_event has returned false
DecodeFailed == Reported("Failed to parse block") \/ Reported("Failed to parse event")

\* the bytes f.read(magic, 8) delivered differ from FILE_MAGIC
BadFileMagic ==
    \E k \in 1..Min(8, Len(file)) : file[k] # FILE_MAGIC[k]

(***************************************************************************)
(* Error handling of the two macros.                                       *)
(***************************************************************************)
\* C1: once a batch header or an event has failed to decode, the reader reads
\* nothing more from the file, decodes nothing more and emits no further record.
C1_FailureAbsorbing ==
    [][DecodeFailed => (io' = io /\ sink' = sink /\ decoded' = decoded)]_vars

\* C2: a run without an event limit in which a decode has failed ends with
\* every record decoded before the failure in the sink, in the order decoded.
C2_DecodedRecordsKept ==
    (pc = "done" /\ DecodeFailed /\ max_events <= 0)
        => [k \in 1..Len(sink) |-> SixFields(sink[k])] = decoded

\* C3: a file whose first 8 bytes are not "DELILA02" is rejected after the read of
\* the magic: that read is the only one, no record is decoded or emitted, no
\* block is counted and convert_to_tree has created no output file.
C3_BadMagicRejected ==
    (BadFileMagic /\ pc # "start")
        => /\ pc = "done"
           /\ Reported("Invalid file magic")
           /\ io = <<IoRead(0, 8, "magic")>>
           /\ sink = <<>>
           /\ decoded = <<>>
           /\ block_count = 0
           /\ ~out_created

\* a whole file with a wrong magic in front of a well-formed block has been rejected
C3_Witness ==
    /\ pc = "done"
    /\ BadFileMagic
    /\ reader = "convert_to_tree"
    /\ Len(file) > FOOTER_SIZE + 12

\* C4: the length read at the head of a block is accepted exactly when it is one
\* of 1 .. 100,000,000.  Any other length ends the streaming with that read:
\* no payload is read, no buffer replaces the last one, and from then on the
\* reader reads nothing and the records emitted so far stay as they are.
C4_BlockLenChecked ==
    [][/\ (pc = "loop" /\ MoreData)
            => /\ Len(io') = Len(io) + 1
               /\ io'[Len(io')].what = "block_len"
               /\ IF Fits31(block_len') /\ Num(block_len') >= 1
                                        /\ Num(block_len') <= 100000000
                  THEN pc' = "block_data" /\ stop' = stop /\ cerr' = cerr
                  ELSE /\ pc' = "finish"
                       /\ stop' = "block_len"
                       /\ cerr' = Append(cerr, "Invalid block length")
                       /\ sink' = sink
                       /\ block_data' = block_data
       /\ stop = "block_len"
            => (pc' = "done" /\ io' = io /\ sink' = sink /\ block_data' = block_data)
      ]_vars

\* a second block of length 100,000,001 has ended a run that had emitted records
C4_Witness ==
    /\ pc = "done"
    /\ stop = "block_len"
    /\ block_len = <<0, 0, 0, 0, 5, 245, 225, 1>>
    /\ sink # <<>>

\* C5: parse_event of convert_to_tree, once it has read the event's array header.
\* A count other than 6 and 7 fails there: the cursor stays behind the header, no
\* byte behind it is read, no branch variable changes, nothing is filled.  A
\* count of 6 or 7 goes on to the fields.  Only counts 6 and 7 succeed, each
\* success fills one entry; with 7 the entry has a waveform, decoded from the
\* bytes behind the six fields, with 6 it has none and its six sample counts,
\* time_resolution and trigger_threshold are 0.
C5_EventArraySize ==
    [][(pc = "events" /\ LtU64(ev_i, num_events) /\ last'.hdr # -1)
         => LET six == last'.size = U64(6)
                seven == last'.size = U64(7)
            IN  /\ last'.op = "parse_event"
                /\ (~six /\ ~seven)
                     => /\ ~last'.ok
                        /\ pos_' = last'.hdr
                        /\ last'.hi = last'.hdr
                        /\ b' = b
                        /\ sink' = sink
                        /\ cerr' = cerr \o <<"Unexpected event array size",
                                             "Failed to parse event">>
                /\ ((six \/ seven) /\ last'.hdr < Len(block_data))
                     => last'.hi > last'.hdr
                /\ last'.ok => /\ six \/ seven
                               /\ sink' = Append(sink, TreeEntry(b'))
                /\ ~last'.ok => sink' = sink
                /\ (last'.ok /\ seven)
                     => /\ b'.has_waveform
                        \* six fields of at least 14 bytes, a waveform of at least 9
                        /\ pos_' >= last'.hdr + 23
                /\ (last'.ok /\ six)
                     => /\ ~b'.has_waveform
                        /\ b'.n_analog1 = 0 /\ b'.n_analog2 = 0
                        /\ b'.n_digital1 = 0 /\ b'.n_digital2 = 0
                        /\ b'.n_digital3 = 0 /\ b'.n_digital4 = 0
                        /\ b'.time_resolution = 0 /\ b'.trigger_threshold = 0
      ]_vars

\* an event of 7 elements has been decoded with its waveform
C5_Witness ==
    /\ last.op = "parse_event"
    /\ last.ok
    /\ last.size = U64(7)
    /\ b.has_waveform
    /\ b.n_analog1 = 2
    /\ sink # <<>>

(***************************************************************************)
(* The byte cursor.                                                        *)
(***************************************************************************)
\* C6: a read primitive that returns false leaves pos_ where it was before the call.
C6_FailureKeepsCursor ==
    (/\ last.op \in {"read_array_header", "read_uint", "read_int", "read_float64",
                     "read_bin"}
     /\ ~last.ok)
        => pos_ = last.prev

\* C7: the cursor stays within the buffer and no call reads a byte at or past
\* data_.size(): a call that needs more bytes than are left returns false.
C7_CursorInBounds ==
    /\ 0 <= pos_
    /\ pos_ <= Len(block_data)
    /\ last.hi <= Len(block_data)

\* read_uint has met the uint16 tag with fewer than two bytes behind it
C7_Witness ==
    /\ last.op = "read_uint"
    /\ ~last.ok
    /\ last.prev < Len(block_data)
    /\ block_data[last.prev + 1] = 205
    /\ last.prev + 3 > Len(block_data)

\* C8 as the specification states it: a sample array that decodes yields the
\* declared length as its sample count, whatever the capacity.
C8_FullDeclaredLength ==
    (last.op \in {"read_u8_array", "read_i16_array"} /\ last.ok)
        => (Fits31(last.size) /\ last.n = Num(last.size))

\* C8: a sample array that decodes yields the smaller of the declared length
\* and the capacity 16384 as its sample count, stores that many samples and
\* moves the cursor over all the declared elements.
C8_CappedSampleCount ==
    (last.op \in {"read_u8_array", "read_i16_array"} /\ last.ok)
        => /\ Fits31(last.size)
           /\ last.n = (IF Num(last.size) <= 16384 THEN Num(last.size) ELSE 16384)
           /\ last.stored = last.n
           /\ pos_ >= last.prev + 1 + Num(last.size)

\* a digital array that declares one sample more than the capacity has decoded
C8_Witness ==
    /\ last.op = "read_u8_array"
    /\ last.ok
    /\ Num(last.size) = MAX_WAVEFORM_SAMPLES + 1
    /\ last.n = MAX_WAVEFORM_SAMPLES
    /\ last.stored = MAX_WAVEFORM_SAMPLES

(***************************************************************************)
(* The event limit and the footer.                                         *)
(***************************************************************************)
\* C9: with max_events = m > 0 the sink never holds more than m records, and
\* once it holds m the reader reads nothing more from the file; with m <= 0
\* the limit never ends a run.
C9_EventLimit ==
    /\ [](max_events > 0 => (Len(sink) <= max_events /\ Emitted = Len(sink)))
    /\ [](max_events <= 0 => stop # "max_events")
    /\ [][(max_events > 0 /\ Len(sink) >= max_events) => io' = io]_vars

\* a run has ended at its limit of 2 records with blocks left in the file
C9_Witness ==
    /\ pc = "done"
    /\ max_events = 2
    /\ Len(sink) = 2
    /\ stop = "max_events"
    /\ ~ffail
    /\ fpos < data_end

\* the 8 bytes at file_size - FOOTER_SIZE differ from FOOTER_MAGIC
BadFooterMagic ==
    /\ Len(file) >= FOOTER_SIZE
    /\ Slice(file, Len(file) - FOOTER_SIZE, 8) # FOOTER_MAGIC

\* the file f with "DLEND002" written over the magic of its footer
WithFooterMagic(f) ==
    [k \in 1..Len(f) |->
        IF k > Len(f) - FOOTER_SIZE /\ k <= Len(f) - FOOTER_SIZE + 8
        THEN FOOTER_MAGIC[k - (Len(f) - FOOTER_SIZE)]
        ELSE f[k]]

\* The events read_delila's streaming loop collects from the blocks of f that
\* start at offset pos or later, without a limit: it ends at the footer, at a
\* bad length, at a payload cut short and at a batch that does not decode.
RECURSIVE BlockEvents(_, _)
BlockEvents(f, pos) ==
    LET Rest(batch, next) ==
            IF ~batch.ok THEN <<>> ELSE batch.events \o BlockEvents(f, next)
        Payload(len) ==
            IF InvalidBlockLen(len) \/ GtU64(len, Len(f) - (pos + 4)) THEN <<>>
            ELSE Rest(parse_batch(Slice(f, pos + 4, Num(len)), 0, U64(0), <<>>),
                      pos + 4 + Num(len))
    IN  IF pos >= Len(f) - FOOTER_SIZE THEN <<>>
        ELSE Payload(LittleEndian(Slice(f, pos, 4)))

\* the events of the data region of a file of at least FOOTER_SIZE bytes that
\* starts with FILE_MAGIC: the blocks start behind the header
DataRegionEvents(f) == BlockEvents(f, 12 + Num(LittleEndian(Slice(f, 8, 4))))

\* the first max_events of evs when there is a limit
Limited(evs) ==
    IF max_events > 0 THEN SubSeq(evs, 1, Min(max_events, Len(evs))) ELSE evs

\* C10: read_delila on a file that has a footer.  A footer magic other than
\* "DLEND002" is reported, and the events the run ends with are those of the
\* same file with a valid footer magic: the events of its data region.
C10_FooterMismatchNotFatal ==
    (reader = "read_delila" /\ pc = "done" /\ ~BadFileMagic /\ Len(file) >= FOOTER_SIZE)
        => /\ sink = Limited(DataRegionEvents(WithFooterMagic(file)))
           /\ BadFooterMagic <=> Reported("Invalid footer magic")

\* a file of two blocks of two events and a footer "DLEND001" has been read
C10_Witness ==
    /\ reader = "read_delila"
    /\ pc = "done"
    /\ BadFooterMagic
    /\ Reported("Invalid footer magic")
    /\ Len(sink) = 4

(***************************************************************************)
(* The event codec.                                                        *)
(***************************************************************************)
\* C11: an event of six fields, each unsigned field in any unsigned encoding
\* that holds its value and the timestamp as 0xcb with 8 bytes, decodes to
\* the six values that were encoded, the timestamp bit for bit, in both
\* macros, and leaves the cursor on the first byte behind the event.
C11_EventDecoded ==
    \A c \in EventCases :
        (pc = "event" /\ last # NoCall /\ block_data \in {c.enc, c.enc \o <<192>>})
            => /\ last.ok
               /\ pos_ = Len(c.enc)
               /\ last.op = "parse_event" => SixFields(b) = c.src
               /\ last.op = "delila_parse_event" => events = <<c.src>>

\* an event whose fields are all encoded as uint64, followed by one more
\* byte, has been decoded by read_delila's parse_event
C11_Witness ==
    /\ pc = "event"
    /\ last.op = "delila_parse_event"
    /\ last.ok
    /\ events # <<>>
    /\ events[1].energy = 65535
    /\ events[1].energy_short = 256
    /\ events[1].flags = Repeat(255, 8)
    /\ events[1].timestamp_ns = Repeat(255, 8)
    /\ Len(block_data) = 56
    /\ pos_ = 55

(***************************************************************************)
(* Well-formed files.                                                      *)
(***************************************************************************)
\* the events the recorder put into a payload, in the order of its event array
Recorded(p) ==
    LET Ev(m, c, e, s, t, f) ==
            [module |-> m, channel |-> c, energy |-> e, energy_short |-> s,
             timestamp_ns |-> t, flags |-> f]
        A == Ev(1, 2, 100, 50, <<64, 147, 74, 0, 0, 0, 0, 0>>, Repeat(0, 8))
        B == Ev(3, 4, 300, 200, <<63, 240, 0, 0, 0, 0, 0, 0>>, <<128, 0, 0, 0, 0, 0, 0, 1>>)
        W == Ev(5, 6, 7, 8, <<64, 0, 0, 0, 0, 0, 0, 0>>, <<0, 0, 0, 0, 0, 0, 0, 1>>)
    IN  IF p = P_one THEN <<A>>
        ELSE IF p = P_two THEN <<A, B>>
        ELSE IF p = P_wave THEN <<W>>
        ELSE IF p = P_badsecond THEN <<B>>
        ELSE IF p = P_badbatch THEN <<A>>
        ELSE <<>>

\* the events of the blocks ps, in file order
RecordedIn(ps) == Flatten([k \in 1..Len(ps) |-> Recorded(ps[k])])

\* the file with header bytes hdr, one block per payload of ps, and a footer
\* that carries total_events = total and write_complete = complete
WellFormed(hdr, ps, total, complete) ==
    MakeFile(FILE_MAGIC, hdr, Flatten([k \in 1..Len(ps) |-> Block(ps[k])]),
             Footer(FOOTER_MAGIC, total, complete))

\* C12: a well-formed file of blocks of six-field events, with any header
\* length, is read to its end: the records emitted are the events of its
\* blocks with the values that were encoded (the first max_events of them
\* under a limit, and given that the output file could be created), and
\* read_delila holds the footer's total_events and
\* write_complete as they were written.
C12_WellFormedFileRead ==
    \A ps \in SeqsUpTo({P_one, P_two, P_empty}, MaxBlocks), hdr \in {<<>>, <<128, 1, 2>>},
       t \in {<<1, 1>>, <<3, 0>>} :
        (/\ pc = "done"
         /\ file = WellFormed(hdr, ps, t[1], t[2])
         /\ ~Reported("Cannot create output file"))
            => /\ [k \in 1..Len(sink) |-> SixFields(sink[k])] = Limited(RecordedIn(ps))
               /\ (reader = "read_delila") =>
                      (/\ \E i \in 1..Len(io) : io[i].what = "footer_fields"
                       /\ footer.total_events = <<0, 0, 0, 0, 0, 0, 0, t[1]>>
                       /\ footer.write_complete = t[2])

\* read_delila has read the file with header length 0 and one block holding
\* the event {1, 2, 100, 50, 1234.5, 0}, whose footer says total_events = 1
\* and write_complete = 1
C12_Witness ==
    /\ reader = "read_delila"
    /\ pc = "done"
    /\ file = WellFormed(<<>>, <<P_one>>, 1, 1)
    /\ sink = <<[module |-> 1, channel |-> 2, energy |-> 100, energy_short |-> 50,
                 timestamp_ns |-> <<64, 147, 74, 0, 0, 0, 0, 0>>, flags |-> Repeat(0, 8)]>>
    /\ \E i \in 1..Len(io) : io[i].what = "footer_fields"
    /\ footer.total_events = <<0, 0, 0, 0, 0, 0, 0, 1>>
    /\ footer.write_complete = 1

(***************************************************************************)
(* Digital probes as binary and as array.                                  *)
(***************************************************************************)
\* C13: read_u8_array decodes a sequence of up to 255 samples of 0 .. 255 to
\* the same count and the same retained bytes, with success, whether the
\* sequence is encoded as bin8 or as an array of unsigned integers, and the
\* cursor ends on the first byte behind the field.
C13_BinEqualsArray ==
    \A s \in SampleSeqs :
        (/\ pc = "samples"
         /\ last.op = "read_u8_array"
         /\ block_data \in {EncBin8(s), EncU8Array(s, FALSE), EncU8Array(s, TRUE)})
            => /\ last.ok
               /\ b.n_digital1 = Len(s)
               /\ b.digital1 = s
               /\ pos_ = Len(block_data)

\* the samples 1 .. 255, encoded as an array, have been read
C13_Witness ==
    /\ pc = "samples"
    /\ last.op = "read_u8_array"
    /\ block_data = EncU8Array([k \in 1..255 |-> k], FALSE)
    /\ b.n_digital1 = 255
    /\ b.digital1 = [k \in 1..255 |-> k]
    /\ pos_ = 3 + 127 + 2 * 128

(***************************************************************************)
(* The integer tags.                                                       *)
(***************************************************************************)
\* C14: read_uint and read_int decode every integer tag whose bytes are in
\* the buffer.  0x00 .. 0x7f is the byte itself; 0xcc, 0xcd, 0xce and 0xcf
\* are the 1, 2, 4 and 8 big-endian bytes that follow, as an unsigned value;
\* for read_int 0xe0 .. 0xff is the byte minus 256 and 0xd0, 0xd1 and 0xd2
\* are the 1, 2 and 4 bytes that follow, as a two's-complement value; an
\* unsigned encoding read by read_int is the value read_uint yields.  The
\* cursor ends behind the bytes of the value.
C14_IntegerTags ==
    LET Int64(n) ==
            [k \in 1..8 |-> IF k <= 4 THEN (IF n < 0 THEN 255 ELSE 0)
                            ELSE (n \div (256 ^ (8 - k))) % 256]
        Signed(v, half) == IF v >= half THEN v - 2 * half ELSE v
        p == last.prev
        tag == block_data[p + 1]
        B(k) == block_data[p + 1 + k]
        Has(n) == p + 1 + n <= Len(block_data)
        Decoded(n, val) == last.ok /\ last.pos = p + 1 + n /\ last.size = val
    IN  (pc = "prim" /\ last.op \in {"read_uint", "read_int"} /\ p < Len(block_data))
            => /\ (tag <= 127) => Decoded(0, Int64(tag))
               /\ (tag = 204 /\ Has(1)) => Decoded(1, Int64(B(1)))
               /\ (tag = 205 /\ Has(2)) => Decoded(2, Int64(B(1) * 256 + B(2)))
               /\ (tag = 206 /\ Has(4)) => Decoded(4, <<0, 0, 0, 0, B(1), B(2), B(3), B(4)>>)
               /\ (tag = 207 /\ Has(8))
                    => Decoded(8, <<B(1), B(2), B(3), B(4), B(5), B(6), B(7), B(8)>>)
               /\ (last.op = "read_int" /\ tag >= 224) => Decoded(0, Int64(tag - 256))
               /\ (last.op = "read_int" /\ tag = 208 /\ Has(1))
                    => Decoded(1, Int64(Signed(B(1), 128)))
               /\ (last.op = "read_int" /\ tag = 209 /\ Has(2))
                    => Decoded(2, Int64(Signed(B(1) * 256 + B(2), 32768)))
               /\ (last.op = "read_int" /\ tag = 210 /\ Has(4))
                    => Decoded(4, Int64(Signed(B(1), 128) * 16777216 + B(2) * 65536
                                        + B(3) * 256 + B(4)))

\* read_int has decoded 0xd1 0x80 0x00 to -32768
C14_Witness ==
    /\ pc = "prim"
    /\ last.op = "read_int"
    /\ block_data = <<209, 128, 0>>
    /\ last.prev = 0
    /\ last.ok
    /\ last.size = <<255, 255, 255, 255, 255, 255, 128, 0>>
    /\ pos_ = 3

(***************************************************************************)
(* The order of the reads from the stream.                                 *)
(***************************************************************************)
\* C15: the reader goes through header, streaming and footer in this order
\* and never back.  The footer is read only after the streaming loop has
\* ended at the end of the data region, and every read starts at or behind
\* the end of the read before it, so that no byte is read twice.
C15_LinearPhases ==
    /\ \A i \in 1..Len(io) :
           io[i].what \in {"footer_magic", "footer_fields"} => stop = "data_end"
    /\ \A i \in 2..Len(io) :
           (io[i].at >= 0 /\ io[i - 1].at >= 0) => io[i].at >= io[i - 1].at + io[i - 1].n

(***************************************************************************)
(* The order of the records in the sink.                                   *)
(***************************************************************************)
\* the files of up to MaxBlocks blocks, well-formed or damaged, with the
\* events the recorder wrote into their blocks; a well-formed file has a
\* valid footer and blocks of valid events, with or without waveform
FramedRecords ==
    {[file |-> MakeFile(FILE_MAGIC, hdr, Flatten([k \in 1..Len(ps) |-> Block(ps[k])]), foot),
      events |-> RecordedIn(ps),
      well_formed |-> /\ \A k \in 1..Len(ps) : ps[k] \in {P_one, P_two, P_empty, P_wave}
                      /\ foot # BadFooter] :
        ps \in SeqsUpTo(CorePayloads, MaxBlocks), hdr \in {<<>>, <<128, 1, 2>>},
        foot \in {GoodFooter, BadFooter, Footer(FOOTER_MAGIC, 3, 0)}}

\* C16: records reach the sink in file order.  A step only adds one record
\* behind those the sink holds, and the records of the sink are events of
\* the file's blocks in the order of the blocks and, within a block, of its
\* event array, each event of the file taken at most once.
C16_FileOrder ==
    /\ [](LET Six == [k \in 1..Len(sink) |-> SixFields(sink[k])]
              InOrder(src) ==
                  \E f \in [1..Len(Six) -> 1..Len(src)] :
                      /\ \A k \in 1..Len(Six) : Six[k] = src[f[k]]
                      /\ \A k \in 2..Len(Six) : f[k - 1] < f[k]
          IN  \A e \in FramedRecords : (e.file = file) => InOrder(e.events))
    /\ [][sink' # sink =>
            (Len(sink') = Len(sink) + 1 /\ SubSeq(sink', 1, Len(sink)) = sink)]_vars

\* convert_to_tree has read a block of two events and a block of one event
\* with a waveform, and holds the three records in this order
C16_Witness ==
    /\ reader = "convert_to_tree"
    /\ pc = "done"
    /\ block_count = 2
    /\ Len(sink) = 3
    /\ sink[1].module = 1
    /\ sink[2].module = 3
    /\ sink[3].module = 5
    /\ sink[3].has_waveform

(***************************************************************************)
(* Sample fields longer than the branch buffers.                           *)
(***************************************************************************)
\* C17: a waveform of which one probe declares more than 16384 samples, as
\* array or as binary, is decoded with the first 16384 samples of that probe
\* retained and all of its elements or bytes consumed: the other probes,
\* time_resolution and trigger_threshold hold the values that were encoded,
\* as they do when the probe declares exactly 16384 samples, and the cursor
\* ends behind the event.
C17_OversizedField ==
    LET N == <<"n_analog1", "n_analog2", "n_digital1", "n_digital2", "n_digital3",
               "n_digital4">>
        A == <<"analog1", "analog2", "digital1", "digital2", "digital3", "digital4">>
        Small == <<<<1, -2>>, <<>>, <<1, 0>>, <<1>>, <<>>, <<>>>>
    IN  \A c \in WaveformCases :
            (pc = "event" /\ last.op = "parse_event" /\ block_data = c.enc)
                => /\ last.ok
                   /\ pos_ = Len(c.enc)
                   /\ b.has_waveform
                   /\ \A j \in 1..6 :
                          IF j = c.probe
                          THEN /\ b[N[j]] = MAX_WAVEFORM_SAMPLES
                               /\ b[A[j]] = SubSeq(c.samples, 1, MAX_WAVEFORM_SAMPLES)
                          ELSE /\ b[N[j]] = Len(Small[j])
                               /\ b[A[j]] = Small[j]
                   /\ b.time_resolution = 2
                   /\ b.trigger_threshold = 256

\* an event whose second digital probe is an array32 of 16385 elements has
\* been decoded
C17_Witness ==
    /\ pc = "event"
    /\ last.op = "parse_event"
    /\ last.ok
    /\ Len(block_data) > 16400
    /\ SubSeq(block_data, 25, 29) = <<221, 0, 0, 64, 1>>
    /\ b.n_digital2 = MAX_WAVEFORM_SAMPLES
    /\ Len(b.digital2) = MAX_WAVEFORM_SAMPLES
    /\ b.time_resolution = 2
    /\ b.trigger_threshold = 256
    /\ pos_ = Len(block_data)

(***************************************************************************)
(* The two macros on the same file.                                        *)
(***************************************************************************)
\* C18: on a well-formed file, events with a waveform included, and with the
\* same max_events, read_delila and convert_to_tree end with the same
\* six-field records: both hold the events of the file (the first
\* max_events of them under a limit), given that convert_to_tree could
\* create its output file.
C18_SameRecords ==
    \A e \in FramedRecords :
        (/\ pc = "done"
         /\ e.file = file
         /\ e.well_formed
         /\ ~Reported("Cannot create output file"))
            => [k \in 1..Len(sink) |-> SixFields(sink[k])] = Limited(e.events)

(***************************************************************************)
(* The data region.                                                        *)
(***************************************************************************)
\* C19: every block length and every payload that was read in full lies in
\* the data region, from the end of the header to file_size - 64: no byte of
\* the footer is taken as block length or as payload.  Of a file shorter
\* than the footer no block is read.
C19_DataRegionOnly ==
    \A i \in 1..Len(io) :
        (io[i].what \in {"block_len", "block_data"} /\ io[i].at >= 0
            /\ io[i].at + io[i].n <= Len(file))
            => /\ Len(file) >= FOOTER_SIZE
               /\ io[i].at >= header_end_pos
               /\ io[i].at + io[i].n <= Len(file) - FOOTER_SIZE

(***************************************************************************)
(* Termination.                                                            *)
(***************************************************************************)
\* C20: the reader ends on every input.  A block that has been read has
\* moved the file offset by 4 + block_len, at least 5 bytes; an iteration of
\* the event loop that does not end the loop has consumed at least one byte
\* of the block; and an element loop (of a sample array, of the events of a
\* batch) runs at most as many iterations as the buffer has bytes, whatever
\* length up to 2^32 - 1 is declared.
C20_Terminates ==
    /\ (pc = "start") ~> (pc = "done")
    /\ [](pc \in {"parse", "events", "add", "block_done"}
            => /\ Len(io) >= 2
               /\ io[Len(io) - 1].what = "block_len"
               /\ Num(block_len) >= 1
               /\ fpos = io[Len(io) - 1].at + 4 + Num(block_len))
    /\ [](pc = "events" => ev_i <= pos_ /\ pos_ <= Len(block_data))
    /\ [][(last' # last /\ last'.op \in {"read_u8_array", "read_i16_array", "parse_batch"})
            => /\ last'.steps <= Len(block_data')
               /\ last'.ok => last'.steps <= last'.pos - last'.prev]_vars
    /\ [][(pc = "events" /\ pc' = "events") => pos_' > pos_]_vars

\* read_delila has ended on a file whose block declares 2^32 - 1 events and
\* holds two: the event loop of parse_batch ran three times
C20_Witness ==
    /\ reader = "read_delila"
    /\ pc = "done"
    /\ last.op = "parse_batch"
    /\ SubSeq(block_data, 5, 9) = <<221, 255, 255, 255, 255>>
    /\ ~last.ok
    /\ last.steps = 3
    /\ Reported("Failed to parse block")


(***************************************************************************)
(* Unsigned integers wider than the field that holds them.                 *)
(***************************************************************************)
\* C21: a field encoded as an unsigned integer q * 2^w + r that does not fit
\* the w bits of its target is decoded without failure and holds r: module,
\* channel, time_resolution and a digital sample for w = 8, energy,
\* energy_short and trigger_threshold for w = 16, source_id for w = 32, and
\* an analog sample r - 65536 when r is 32768 or more (65535 is stored as -1).
\* The parse_event of read_delila.C does the same on an event of six fields.
C21_WideUnsignedStored ==
    \A c \in WideCases :
        (pc = "event" /\ block_data = c.enc)
            => /\ (last.op = "parse_event" /\ c.field # "source_id")
                      => /\ last.ok
                         /\ IF c.field \in {"module", "channel", "energy", "energy_short",
                                            "time_resolution", "trigger_threshold"}
                            THEN <<b[c.field]>> = c.stored
                            ELSE TreeEntry(b)[c.field] = c.stored
               /\ (last.op = "delila_parse_event" /\ c.enc[1] = 150)
                      => last.ok /\ Len(events) = 1 /\ <<events[1][c.field]>> = c.stored
               /\ (last.op = "parse_batch_header" /\ c.field = "source_id")
                      => last.ok /\ last.source_id = c.stored

\* an event whose first analog probe is the one element 65535 as uint16 has
\* been decoded, and the probe holds -1
C21_Witness ==
    /\ pc = "event"
    /\ last.op = "parse_event"
    /\ last.ok
    /\ Len(block_data) = 34
    /\ \A k \in 1..5 : block_data[15 + k] = <<152, 145, 205, 255, 255>>[k]
    /\ b.n_analog1 = 1
    /\ b.analog1 = <<-1>>
    /\ b.time_resolution = 2
    /\ pos_ = Len(block_data)

====
